---- MODULE Spec2Model ----
(***************************************************************************)
(* A model of the portfolio accounting and of the day-by-day simulation    *)
(* loop of backend/app/backtester.py, with the strategies' rebalance test  *)
(* and ticker selection of backend/app/strategies.py.                      *)
(*                                                                         *)
(* Money is an integer number of units, Cent units to the cent, so that    *)
(* the percentages and halvings the code takes of the amounts drawn here   *)
(* are exact.  A float `a // b` is floor division, which is \div.          *)
(*                                                                         *)
(* Three specifications share the variables:                               *)
(*   Spec       run_backtest: the loop over the trading days               *)
(*   SpecCalls  any sequence of buy_ticker / sell_ticker calls on a        *)
(*              freshly constructed Portfolio                              *)
(*   SpecTax    whole-position trades and settle_annual_tax calls over     *)
(*              several tax years                                          *)
(***************************************************************************)
EXTENDS Integers, Sequences, FiniteSets, TLC

VARIABLES
    portfolio,            \* the Portfolio object (its fields are the record's fields)
    strategy,             \* the Strategy object and the run's own parameters
    pc,                   \* position in run_backtest's loop body, or the driver's mode
    day,                  \* index in Calendar of the date being processed (0: none yet)
    date,                 \* the date being processed, or of the last call
    count,                \* trading days started (Spec) or calls made (SpecCalls, SpecTax)
    current_prices,       \* today's row of close prices
    prev_prices,          \* the previous day's row, None on the first day
    last_rebalance_date,  \* None or the date of the last rebalance
    tax_calls,            \* ghost: the dates at which settle_annual_tax was invoked
    call                  \* ghost: the last operation, its arguments, its result and
                          \* the portfolio it was applied to

vars == <<portfolio, strategy, pc, day, date, count, current_prices, prev_prices,
          last_rebalance_date, tax_calls, call>>

----------------------------------------------------------------------------
(* Bounds *)

MaxDays == 3
MaxCalls == 3
MaxTaxCalls == 10
MaxYears == 8
MomentumDays == 2
MetricsLen == 2
MaxPeriodDays == 10

----------------------------------------------------------------------------
(* Units and values *)

Cent == 16
Dollar == 100 * Cent

\* pd.isna: a missing close price; never a price a caller passes on
NaN == -99999999

None == <<>>
Some(x) == <<x>>

Tickers == {"A", "B"}
\* the price table's column order
Columns == <<"A", "B">>

\* The index of the price table: real dates with their day count from the first.
Calendar ==
    << [year |-> 2019, month |-> 12, ord |-> 0],    \* 2019-12-16
       [year |-> 2020, month |-> 1,  ord |-> 17],   \* 2020-01-02
       [year |-> 2020, month |-> 1,  ord |-> 18],   \* 2020-01-03
       [year |-> 2020, month |-> 2,  ord |-> 49],   \* 2020-02-03
       [year |-> 2020, month |-> 3,  ord |-> 79] >> \* 2020-03-04

Abs(x) == IF x < 0 THEN 0 - x ELSE x
Min(a, b) == IF a <= b THEN a ELSE b
Max(a, b) == IF a >= b THEN a ELSE b

\* x * (v / 100)
Pct(x, v) == (x * v) \div 100

\* dict operations
Put(d, k, v) == [x \in (DOMAIN d) \cup {k} |-> IF x = k THEN v ELSE d[x]]
Del(d, k) == [x \in (DOMAIN d) \ {k} |-> d[x]]
Get(d, k, default) == IF k \in DOMAIN d THEN d[k] ELSE default

----------------------------------------------------------------------------
(* Portfolio *)

\* Portfolio.__init__; fee is <<enabled, type, value>>, tax is <<enabled, pct>>
Portfolio(initial_capital, fee, tax, margin_enabled, sizing_method) ==
    [ initial_capital |-> initial_capital,
      cash |-> initial_capital,
      holdings |-> <<>>,
      holdings_keys |-> <<>>,
      cost_basis |-> <<>>,
      entry_prices |-> <<>>,
      history |-> <<>>,
      rebalance_history |-> <<>>,
      transaction_fee_enabled |-> fee[1],
      transaction_fee_type |-> fee[2],
      transaction_fee_value |-> fee[3],
      capital_gains_tax_enabled |-> tax[1],
      capital_gains_tax_pct |-> tax[2],
      annual_realized_pnl |-> 0,
      loss_carryforward |-> <<>>,
      margin_enabled |-> margin_enabled,
      sizing_method |-> sizing_method ]

\* the fee of a trade worth `base`: a percentage of it, or a fixed amount
TransactionFee(self, base) ==
    IF self.transaction_fee_enabled
    THEN IF self.transaction_fee_type = "percentage"
         THEN Pct(base, self.transaction_fee_value)
         ELSE self.transaction_fee_value
    ELSE 0

\* list(d.keys()) after d[k] = v and after del d[k]: a dict keeps insertion order
KeysPut(keys, k) == IF \E i \in 1..Len(keys) : keys[i] = k THEN keys ELSE Append(keys, k)
KeysDel(keys, k) == SelectSeq(keys, LAMBDA x : x # k)

RemovePositionKeepEntry(self, ticker) ==
    [self EXCEPT !.holdings = Del(@, ticker),
                 !.holdings_keys = KeysDel(@, ticker),
                 !.cost_basis = Del(@, ticker)]

\* del holdings[ticker]; del cost_basis[ticker]; del entry_prices[ticker] if present
RemovePosition(self, ticker) ==
    [self EXCEPT !.holdings = Del(@, ticker),
                 !.holdings_keys = KeysDel(@, ticker),
                 !.cost_basis = Del(@, ticker),
                 !.entry_prices = Del(@, ticker)]

SaleCreditGross(revenue, fee) == revenue

\* what a sale adds to cash
SaleCredit(revenue, fee) == revenue - fee

NotHeldNever(self, ticker) == FALSE

\* sell_ticker's early return
NotHeld(self, ticker) == ticker \notin DOMAIN self.holdings

PnlAccruesAlways(self) == TRUE

\* the net profit of a sale is accumulated only when the tax is enabled
PnlAccrues(self) == self.capital_gains_tax_enabled

\* Returns the portfolio after the call and the value returned (None or a record).
sell_ticker(self, ticker, price) ==
    IF NotHeld(self, ticker)
    THEN [self |-> self, ret |-> None]
    ELSE
        LET quantity == Get(self.holdings, ticker, 0)
            revenue == quantity * price
            fee == TransactionFee(self, revenue)
            cost == Get(self.cost_basis, ticker, 0)
            pnl == revenue - cost - fee
            \* return_pct = pnl / cost, kept as the fraction <<pnl, cost>>
            pnl_percent == IF cost > 0 THEN <<pnl, cost>> ELSE <<0, 1>>
            accrued == IF PnlAccrues(self)
                       THEN [self EXCEPT !.annual_realized_pnl = @ + pnl]
                       ELSE self
            credited == [accrued EXCEPT !.cash = @ + SaleCredit(revenue, fee)]
        IN  [ self |-> RemovePosition(credited, ticker),
              ret |-> Some([revenue |-> revenue, profit |-> pnl,
                            return_pct |-> pnl_percent, fee |-> fee]) ]

BuyQuantityRoundedUp(self, amount, price) ==
    IF self.margin_enabled THEN (amount \div price) + 1
    ELSE (amount + price - 1) \div price

BuyQuantityTwoExtra(self, amount, price) ==
    IF self.margin_enabled THEN (amount \div price) + 2 ELSE amount \div price

\* whole shares only; one extra share when margin is enabled
BuyQuantity(self, amount, price) ==
    IF self.margin_enabled THEN (amount \div price) + 1 ELSE amount \div price

QuantityRejectedNegative(quantity) == quantity < 0

QuantityRejected(quantity) == quantity <= 0

BuyFeeBaseAmount(amount, actual_cost) == amount

\* the fee is recalculated on the actual cost, not on the allocation
BuyFeeBase(amount, actual_cost) == actual_cost

buy_ticker(self, ticker, amount, price, score, var) ==
    IF price <= 0
    THEN [self |-> self, ret |-> None]
    ELSE
        LET quantity == BuyQuantity(self, amount, price)
        IN  IF QuantityRejected(quantity)
            THEN [self |-> self, ret |-> None]
            ELSE
                LET actual_cost == quantity * price
                    fee == TransactionFee(self, BuyFeeBase(amount, actual_cost))
                IN  [ self |-> [self EXCEPT
                                  !.holdings = Put(@, ticker, quantity),
                                  !.holdings_keys = KeysPut(@, ticker),
                                  !.cost_basis = Put(@, ticker, actual_cost),
                                  !.entry_prices = Put(@, ticker, price),
                                  !.cash = @ - (actual_cost + fee)],
                      ret |-> Some([ticker |-> ticker, quantity |-> quantity,
                                    price |-> price, score |-> score,
                                    fee |-> fee, var |-> var]) ]

----------------------------------------------------------------------------
(* Portfolio.settle_annual_tax *)

CarryYears == 5

NotExpiredUpToFive(current_year, entry) == current_year - entry[1] <= CarryYears

\* the clean-up of expired losses
NotExpired(current_year, entry) == current_year - entry[1] < CarryYears

HalfWhole(x) == x

\* loss_amount * 0.5
Half(x) == x \div 2

\* The deduction loop over loss_carryforward from entry i on: the losses kept,
\* the deductions applied and the profit left.
RECURSIVE ApplyLosses(_, _, _, _, _)
ApplyLosses(losses, i, remaining_profit, updated_losses, applied) ==
    IF i > Len(losses)
    THEN [ updated_losses |-> updated_losses, applied |-> applied,
           remaining_profit |-> remaining_profit ]
    ELSE
        LET loss_year == losses[i][1]
            loss_amount == losses[i][2]
        IN  IF remaining_profit <= 0
            THEN ApplyLosses(losses, i + 1, remaining_profit,
                             Append(updated_losses, <<loss_year, loss_amount>>), applied)
            ELSE
                LET max_deduction == Half(loss_amount)
                    actual_deduction == Min(max_deduction, remaining_profit)
                    remaining_loss == loss_amount - actual_deduction
                IN  ApplyLosses(losses, i + 1, remaining_profit - actual_deduction,
                        IF remaining_loss > Cent
                        THEN Append(updated_losses, <<loss_year, remaining_loss>>)
                        ELSE updated_losses,
                        Append(applied, [year |-> loss_year, original_loss |-> loss_amount,
                                         deduction |-> actual_deduction]))

LossEntrySigned(current_year, pnl) == <<current_year, pnl>>

\* the entry a year's loss adds to the carryforward
LossEntry(current_year, pnl) == <<current_year, Abs(pnl)>>

ResetPnlOfLossOnly(pnl) == IF pnl < 0 THEN 0 ELSE pnl

\* the reset of annual_realized_pnl for the new year
ResetPnl(pnl) == 0

SettlementRecordedAlways(tax, pnl, loss_deductions_applied) == TRUE

\* if tax > 0 or self.annual_realized_pnl != 0 or loss_deductions_applied
SettlementRecorded(tax, pnl, loss_deductions_applied) ==
    tax > 0 \/ pnl # 0 \/ loss_deductions_applied # <<>>

settle_annual_tax(self, d) ==
    IF ~self.capital_gains_tax_enabled
    THEN self
    ELSE
        LET current_year == d.year
            pnl == self.annual_realized_pnl
            cleaned == SelectSeq(self.loss_carryforward,
                                 LAMBDA e: NotExpired(current_year, e))
            loop == ApplyLosses(cleaned, 1, pnl, <<>>, <<>>)
            deducting == pnl > 0 /\ cleaned # <<>>
            carry == IF pnl < 0 THEN Append(cleaned, LossEntry(current_year, pnl))
                     ELSE IF deducting THEN loop.updated_losses
                     ELSE cleaned
            loss_deductions_applied == IF deducting THEN loop.applied ELSE <<>>
            taxable_profit == IF deducting THEN loop.remaining_profit ELSE pnl
            tax == IF taxable_profit > 0
                   THEN Pct(taxable_profit, self.capital_gains_tax_pct)
                   ELSE 0
            cash == self.cash - tax
            event == [ date |-> d, type |-> "tax_settlement", annual_pnl |-> pnl,
                       taxable_profit |-> taxable_profit,
                       loss_deductions |-> loss_deductions_applied,
                       remaining_losses |-> carry, tax |-> tax,
                       sold |-> <<>>, bought |-> <<>>, cash |-> cash ]
        IN  [self EXCEPT
                !.loss_carryforward = carry,
                !.cash = cash,
                !.rebalance_history =
                    IF SettlementRecorded(tax, pnl, loss_deductions_applied)
                    THEN Append(@, event) ELSE @,
                !.annual_realized_pnl = ResetPnl(pnl)]

----------------------------------------------------------------------------
(* Portfolio: valuation, stop loss, rebalance, interest *)

IsNa(p) == p = NaN

ValidAlways(prices, ticker) == ticker \in DOMAIN prices

\* `ticker in prices and not pd.isna(prices[ticker])`
Valid(prices, ticker) == ticker \in DOMAIN prices /\ ~IsNa(prices[ticker])

RECURSIVE SumOver(_, _, _)
SumOver(keys, i, f) == IF i > Len(keys) THEN 0 ELSE f[keys[i]] + SumOver(keys, i + 1, f)

\* cash + sum of quantity * price over the tickers of current_prices that are held;
\* a NaN price of a held ticker makes the sum, and the total, NaN
get_total_value(self, prices) ==
    LET held == SelectSeq(Columns, LAMBDA t : t \in DOMAIN prices /\ t \in DOMAIN self.holdings)
    IN  IF \E i \in 1..Len(held) : IsNa(prices[held[i]])
        THEN NaN
        ELSE self.cash + SumOver(held, 1, [t \in Tickers |->
                             IF t \in DOMAIN self.holdings /\ t \in DOMAIN prices
                             THEN self.holdings[t] * prices[t] ELSE 0])

record_history_overwriting(self, d, prices) ==
    LET snapshot == [date |-> d, total_value |-> get_total_value(self, prices),
                     cash |-> self.cash]
    IN  [self EXCEPT !.history =
            IF @ = <<>> THEN <<snapshot>>
            ELSE Append(SubSeq(@, 1, Len(@) - 1), snapshot)]

record_history_initial_cash(self, d, prices) ==
    [self EXCEPT !.history = Append(@, [date |-> d,
                                        total_value |-> get_total_value(self, prices),
                                        cash |-> self.initial_capital])]

record_history(self, d, prices) ==
    [self EXCEPT !.history = Append(@, [date |-> d,
                                        total_value |-> get_total_value(self, prices),
                                        cash |-> self.cash])]

apply_daily_interest_on_any_debt(self) ==
    IF self.cash < 0
    THEN [self EXCEPT !.cash = @ - ((Abs(self.cash) * 3) \div 36525)]
    ELSE self

\* |cash| * (0.03 / 365.25) on a negative balance, when margin is enabled
apply_daily_interest(self) ==
    IF self.margin_enabled /\ self.cash < 0
    THEN [self EXCEPT !.cash = @ - ((Abs(self.cash) * 3) \div 36525)]
    ELSE self

StopLossHitOrEqual(trigger_price, entry_price, stop_loss_pct) ==
    entry_price > 0 /\ trigger_price * 100 <= entry_price * (100 - stop_loss_pct)

\* trigger_price < entry_price * (1 - stop_loss_pct), stop_loss_pct in percent
StopLossHit(trigger_price, entry_price, stop_loss_pct) ==
    entry_price > 0 /\ trigger_price * 100 < entry_price * (100 - stop_loss_pct)

\* stop_loss_pct = 0 stands for None
get_stop_loss_candidates(self, trigger_prices, stop_loss_pct) ==
    IF stop_loss_pct = 0
    THEN <<>>
    ELSE SelectSeq(self.holdings_keys, LAMBDA t :
            /\ Valid(trigger_prices, t)
            /\ StopLossHit(trigger_prices[t], Get(self.entry_prices, t, 0), stop_loss_pct))

InverseVarFallbackTen(var_map, ticker) ==
    IF ticker \in DOMAIN var_map /\ Abs(var_map[ticker]) > 1
    THEN 10000 \div Abs(var_map[ticker])
    ELSE 10

\* var in units of 0.0001; 1 / |var|, and 1 / 0.05 for a missing or near-zero var
InverseVar(var_map, ticker) ==
    IF ticker \in DOMAIN var_map /\ Abs(var_map[ticker]) > 1
    THEN 10000 \div Abs(var_map[ticker])
    ELSE 20

\* the allocation of each ticker to buy, out of the cash at hand
Allocations(self, tickers_to_buy, var_map) ==
    LET n == Len(tickers_to_buy)
        inverse_vars == [t \in Tickers |-> InverseVar(var_map, t)]
        total_inverse_var == SumOver(tickers_to_buy, 1, inverse_vars)
        equal == [t \in Tickers |-> self.cash \div n]
    IN  IF self.sizing_method = "var" /\ DOMAIN var_map # {}
        THEN IF total_inverse_var > 0
             THEN [t \in Tickers |-> (self.cash * inverse_vars[t]) \div total_inverse_var]
             ELSE equal
        ELSE equal

SoldByRebalanceNever(ticker, target_set, prices) == FALSE

SoldByRebalanceAlways(ticker, target_set, prices) == Valid(prices, ticker)

\* a held ticker is sold when it is not a target and has a price
SoldByRebalance(ticker, target_set, prices) ==
    ticker \notin target_set /\ Valid(prices, ticker)

\* step 1 of rebalance: sell the held tickers that are not targets, from key i on
RECURSIVE RebalanceSells(_, _, _, _, _, _)
RebalanceSells(self, keys, i, target_set, prices, sold) ==
    IF i > Len(keys)
    THEN [self |-> self, sold |-> sold]
    ELSE
        LET ticker == keys[i]
            r == sell_ticker(self, ticker, prices[ticker])
        IN  IF SoldByRebalance(ticker, target_set, prices)
            THEN RebalanceSells(r.self, keys, i + 1, target_set, prices,
                                IF r.ret # None THEN Put(sold, ticker, r.ret[1]) ELSE sold)
            ELSE RebalanceSells(self, keys, i + 1, target_set, prices, sold)

\* step 2 of rebalance: buy the tickers to buy that have a price, from ticker i on
RECURSIVE RebalanceBuys(_, _, _, _, _, _, _, _)
RebalanceBuys(self, tickers_to_buy, i, allocations, prices, scores, var_map, bought) ==
    IF i > Len(tickers_to_buy)
    THEN [self |-> self, bought |-> bought]
    ELSE
        LET ticker == tickers_to_buy[i]
            var == IF DOMAIN var_map # {} /\ ticker \in DOMAIN var_map
                   THEN Some(var_map[ticker]) ELSE None
            r == buy_ticker(self, ticker, allocations[ticker], prices[ticker],
                            scores[ticker], var)
        IN  IF Valid(prices, ticker)
            THEN RebalanceBuys(r.self, tickers_to_buy, i + 1, allocations, prices, scores,
                               var_map, IF r.ret # None THEN Append(bought, r.ret[1])
                                        ELSE bought)
            ELSE RebalanceBuys(self, tickers_to_buy, i + 1, allocations, prices, scores,
                               var_map, bought)

\* targets: a sequence of <<ticker, score>>
rebalance(self, targets, prices, d, var_map) ==
    LET target_tickers == [i \in 1..Len(targets) |-> targets[i][1]]
        target_set == {targets[i][1] : i \in 1..Len(targets)}
        scores == [t \in Tickers |->
                     IF \E i \in 1..Len(targets) : targets[i][1] = t
                     THEN targets[CHOOSE i \in 1..Len(targets) :
                                    /\ targets[i][1] = t
                                    /\ \A j \in (i + 1)..Len(targets) : targets[j][1] # t][2]
                     ELSE 0]
        sells == RebalanceSells(self, self.holdings_keys, 1, target_set, prices, <<>>)
        tickers_to_buy == SelectSeq(target_tickers,
                                    LAMBDA t : t \notin DOMAIN sells.self.holdings)
        allocations == Allocations(sells.self, tickers_to_buy, var_map)
        buys == IF tickers_to_buy # <<>>
                THEN RebalanceBuys(sells.self, tickers_to_buy, 1, allocations, prices,
                                   scores, var_map, <<>>)
                ELSE [self |-> sells.self, bought |-> <<>>]
    IN  [buys.self EXCEPT !.rebalance_history =
            Append(@, [date |-> d, type |-> "rebalance", sold |-> sells.sold,
                       bought |-> buys.bought, cash |-> buys.self.cash])]

----------------------------------------------------------------------------
(* RandomSelectionStrategy *)

\* [t for t, p in current_prices.items() if not pd.isna(p)]
AvailableTickers(prices) == SelectSeq(Columns, LAMBDA t : ~IsNa(prices[t]))

\* the orders in which n of m things can be drawn
Samples(n, m) == {s \in [1..n -> 1..m] : \A i, j \in 1..n : i # j => s[i] # s[j]}

select_tickers_always_sampled(strat, available_tickers) ==
    LET n == Min(strat.n_tickers, Len(available_tickers))
    IN  {[i \in 1..n |-> <<available_tickers[s[i]], 0>>] :
            s \in Samples(n, Len(available_tickers))}

\* every list random.sample may return; all the tickers, in order, when there
\* are no more than n_tickers of them
select_tickers(strat, available_tickers) ==
    IF Len(available_tickers) <= strat.n_tickers
    THEN {[i \in 1..Len(available_tickers) |-> <<available_tickers[i], 0>>]}
    ELSE {[i \in 1..strat.n_tickers |-> <<available_tickers[s[i]], 0>>] :
             s \in Samples(strat.n_tickers, Len(available_tickers))}

DaysPerWeek == 7
DaysPerMonth == 30

should_rebalance_later(strat, current_date, last) ==
    IF last = None
    THEN TRUE
    ELSE
        LET days_diff == current_date.ord - last[1].ord
        IN  IF strat.rebalance_period_unit = "days"
            THEN days_diff > strat.rebalance_period
            ELSE IF strat.rebalance_period_unit = "weeks"
            THEN days_diff > strat.rebalance_period * DaysPerWeek
            ELSE days_diff > strat.rebalance_period * DaysPerMonth

should_rebalance(strat, current_date, last) ==
    IF last = None
    THEN TRUE
    ELSE
        LET days_diff == current_date.ord - last[1].ord
        IN  IF strat.rebalance_period_unit = "days"
            THEN days_diff >= strat.rebalance_period
            ELSE IF strat.rebalance_period_unit = "weeks"
            THEN days_diff >= strat.rebalance_period * DaysPerWeek
            ELSE days_diff >= strat.rebalance_period * DaysPerMonth

----------------------------------------------------------------------------
(* run_backtest: the blocks of the loop body *)

ReplacementHeldOrNot(self, top, ticker) ==
    LET ok == {i \in 1..Len(top) : top[i][1] # ticker}
    IN  IF ok = {} THEN None
        ELSE Some(top[CHOOSE i \in ok : \A j \in ok : i <= j])

ReplacementLast(self, top, ticker) ==
    LET ok == {i \in 1..Len(top) : top[i][1] \notin DOMAIN self.holdings /\ top[i][1] # ticker}
    IN  IF ok = {} THEN None
        ELSE Some(top[CHOOSE i \in ok : \A j \in ok : i >= j])

\* the first top ticker that is not held and is not the ticker just sold
Replacement(self, top, ticker) ==
    LET ok == {i \in 1..Len(top) : top[i][1] \notin DOMAIN self.holdings /\ top[i][1] # ticker}
    IN  IF ok = {} THEN None
        ELSE Some(top[CHOOSE i \in ok : \A j \in ok : i <= j])

ShouldSellAlways(smart, top, ticker) == TRUE

\* should_sell: in smart mode a candidate among the top tickers is kept
ShouldSell(smart, top, ticker) == ~(smart /\ \E k \in 1..Len(top) : top[k][1] = ticker)

\* the loop over the stop-loss candidates, from candidate i on
RECURSIVE StopLossLoop(_, _, _, _, _, _, _, _)
StopLossLoop(self, candidates, i, smart, top, prices, sold, bought) ==
    IF i > Len(candidates)
    THEN [self |-> self, sold |-> sold, bought |-> bought]
    ELSE
        LET ticker == candidates[i]
            should_sell == ShouldSell(smart, top, ticker)
            r == sell_ticker(self, ticker, prices[ticker])
            replacement == Replacement(r.self, top, ticker)
            b == buy_ticker(r.self, replacement[1][1], r.ret[1].revenue,
                            prices[replacement[1][1]], replacement[1][2], None)
        IN  IF should_sell /\ Valid(prices, ticker) /\ r.ret # None
            THEN IF smart /\ replacement # None /\ replacement[1][1] \in DOMAIN prices
                 THEN StopLossLoop(b.self, candidates, i + 1, smart, top, prices,
                                   Put(sold, ticker, r.ret[1]),
                                   IF b.ret # None THEN Append(bought, b.ret[1]) ELSE bought)
                 ELSE StopLossLoop(r.self, candidates, i + 1, smart, top, prices,
                                   Put(sold, ticker, r.ret[1]), bought)
            ELSE StopLossLoop(self, candidates, i + 1, smart, top, prices, sold, bought)

StopLossRecordedAlways(sold, bought) == TRUE

\* if sold_performance or bought_performance
StopLossRecorded(sold, bought) == DOMAIN sold # {} \/ bought # <<>>

\* the stop-loss block, given the list the strategy returned (used in smart mode)
StopLossBlock(self, strat, d, prices, prev, top_tickers_with_scores) ==
    LET candidates == get_stop_loss_candidates(self, prev, strat.stop_loss_pct)
        top == IF strat.smart_stop_loss THEN top_tickers_with_scores ELSE <<>>
        loop == StopLossLoop(self, candidates, 1, strat.smart_stop_loss, top, prices,
                             <<>>, <<>>)
    IN  IF candidates = <<>>
        THEN self
        ELSE IF StopLossRecorded(loop.sold, loop.bought)
        THEN [loop.self EXCEPT !.rebalance_history =
                Append(@, [date |-> d,
                           type |-> IF strat.smart_stop_loss THEN "stop_loss_smart"
                                    ELSE "stop_loss",
                           sold |-> loop.sold, bought |-> loop.bought,
                           cash |-> loop.self.cash])]
        ELSE loop.self

\* the test that guards the settlement
SettlementDue(capital_gains_tax_enabled, d, last) ==
    /\ capital_gains_tax_enabled
    /\ d.month = 1
    /\ (last = None \/ last[1].year < d.year)

----------------------------------------------------------------------------
(* Values drawn by the specifications *)

InitialCapital == 10000 * Dollar

\* <<enabled, type, value>>: no fee, 1 % of the trade, 5 dollars a trade
FeeConfigs == { <<FALSE, "percentage", 0>>, <<TRUE, "percentage", 1>>,
                <<TRUE, "fixed", 5 * Dollar>> }

\* the fee configurations of the runs
RunFeeConfigs == { <<FALSE, "percentage", 0>>, <<TRUE, "percentage", 1>> }

\* <<enabled, pct>>
TaxConfigs == { <<FALSE, 0>>, <<TRUE, 20>> }

NoDate == [year |-> 0, month |-> 0, ord |-> 0]

NoCall == [op |-> "none", ticker |-> "", amount |-> 0, price |-> 0,
           ret |-> None, before |-> None]

----------------------------------------------------------------------------
(* SpecCalls: sequences of buy_ticker and sell_ticker calls *)

\* allocations: negative, less than one share, exactly 100 shares at 100
CallAmounts == { 0 - 50 * Dollar, 50 * Dollar, 10000 * Dollar }
CallPrices == { 0, 100 * Dollar, 110 * Dollar }

InitCalls ==
    /\ \E fee \in FeeConfigs, tax \in TaxConfigs, margin \in BOOLEAN :
          portfolio = Portfolio(InitialCapital, fee, tax, margin, "equal")
    /\ strategy = None
    /\ pc = "calls"
    /\ day = 0
    /\ date = NoDate
    /\ count = 0
    /\ current_prices = None
    /\ prev_prices = None
    /\ last_rebalance_date = None
    /\ tax_calls = <<>>
    /\ call = NoCall

BuyCall ==
    /\ pc = "calls"
    /\ count < MaxCalls
    /\ \E ticker \in Tickers, amount \in CallAmounts, price \in CallPrices :
          LET r == buy_ticker(portfolio, ticker, amount, price, 0, None)
          IN  /\ portfolio' = r.self
              /\ call' = [op |-> "buy", ticker |-> ticker, amount |-> amount,
                          price |-> price, ret |-> r.ret, before |-> Some(portfolio)]
    /\ count' = count + 1
    /\ UNCHANGED <<strategy, pc, day, date, current_prices, prev_prices,
                   last_rebalance_date, tax_calls>>

SellCall ==
    /\ pc = "calls"
    /\ count < MaxCalls
    /\ \E ticker \in Tickers, price \in CallPrices :
          LET r == sell_ticker(portfolio, ticker, price)
          IN  /\ portfolio' = r.self
              /\ call' = [op |-> "sell", ticker |-> ticker, amount |-> 0,
                          price |-> price, ret |-> r.ret, before |-> Some(portfolio)]
    /\ count' = count + 1
    /\ UNCHANGED <<strategy, pc, day, date, current_prices, prev_prices,
                   last_rebalance_date, tax_calls>>

NextCalls == BuyCall \/ SellCall

SpecCalls == InitCalls /\ [][NextCalls]_vars

----------------------------------------------------------------------------
(* SpecTax: one ticker traded with all the cash, settled every January *)

TaxBuyPrices == { 100 * Dollar }
TaxSellPrices == { 80 * Dollar, 110 * Dollar }

InitTax ==
    /\ \E fee \in RunFeeConfigs :
          portfolio = Portfolio(InitialCapital, fee, <<TRUE, 20>>, FALSE, "equal")
    /\ strategy = None
    /\ pc = "tax_years"
    /\ day = 0
    /\ date = [year |-> 2020, month |-> 1, ord |-> 0]
    /\ count = 0
    /\ current_prices = None
    /\ prev_prices = None
    /\ last_rebalance_date = None
    /\ tax_calls = <<>>
    /\ call = NoCall

TaxBuy ==
    /\ pc = "tax_years"
    /\ count < MaxTaxCalls
    /\ "A" \notin DOMAIN portfolio.holdings
    /\ \E price \in TaxBuyPrices :
          LET r == buy_ticker(portfolio, "A", portfolio.cash, price, 0, None)
          IN  /\ portfolio' = r.self
              /\ call' = [op |-> "buy", ticker |-> "A", amount |-> portfolio.cash,
                          price |-> price, ret |-> r.ret, before |-> Some(portfolio)]
    /\ count' = count + 1
    /\ UNCHANGED <<strategy, pc, day, date, current_prices, prev_prices,
                   last_rebalance_date, tax_calls>>

TaxSell ==
    /\ pc = "tax_years"
    /\ count < MaxTaxCalls
    /\ "A" \in DOMAIN portfolio.holdings
    /\ \E price \in TaxSellPrices :
          LET r == sell_ticker(portfolio, "A", price)
          IN  /\ portfolio' = r.self
              /\ call' = [op |-> "sell", ticker |-> "A", amount |-> 0,
                          price |-> price, ret |-> r.ret, before |-> Some(portfolio)]
    /\ count' = count + 1
    /\ UNCHANGED <<strategy, pc, day, date, current_prices, prev_prices,
                   last_rebalance_date, tax_calls>>

\* the first trading day of the next January
TaxSettle ==
    /\ pc = "tax_years"
    /\ count < MaxTaxCalls
    /\ date' = [date EXCEPT !.year = @ + 1, !.ord = @ + 365]
    /\ portfolio' = settle_annual_tax(portfolio, date')
    /\ tax_calls' = Append(tax_calls, date')
    /\ call' = [NoCall EXCEPT !.op = "settle_annual_tax", !.before = Some(portfolio)]
    /\ count' = count + 1
    /\ UNCHANGED <<strategy, pc, day, current_prices, prev_prices, last_rebalance_date>>

NextTax == TaxBuy \/ TaxSell \/ TaxSettle

SpecTax == InitTax /\ [][NextTax]_vars

----------------------------------------------------------------------------
(* Spec: run_backtest *)

\* a row of the price table: A may be missing, B is always quoted
PriceRows == { [t \in Tickers |-> IF t = "A" THEN a ELSE b] :
                  a \in {NaN, 80 * Dollar, 100 * Dollar}, b \in {80 * Dollar, 100 * Dollar} }

\* <<stop_loss_pct in percent (0: None), smart_stop_loss>>
StopConfigs == { <<0, FALSE>>, <<10, FALSE>>, <<10, TRUE>> }

\* <<n_tickers, sizing_method, the 95 % VaR of the tickers that have one, in 0.0001>>
SizingConfigs == { <<1, "equal", <<>> >>, <<2, "equal", <<>> >>,
                   <<2, "var", [t \in {"A"} |-> 0 - 200]>> }

\* <<rebalance_period, rebalance_period_unit>>
PeriodConfigs == { <<1, "days">>, <<1, "months">> }

\* start_date: the index in Calendar of the first day of the run
StartDays == { 1, 2 }

Init ==
    /\ \E fee \in RunFeeConfigs, tax \in TaxConfigs, margin \in BOOLEAN,
          stop \in StopConfigs, sizing \in SizingConfigs, period \in PeriodConfigs,
          start \in StartDays :
          /\ portfolio = Portfolio(InitialCapital, fee, tax, margin, sizing[2])
          /\ strategy = [ n_tickers |-> sizing[1],
                          rebalance_period |-> period[1],
                          rebalance_period_unit |-> period[2],
                          stop_loss_pct |-> stop[1],
                          smart_stop_loss |-> stop[2],
                          capital_gains_tax_enabled |-> tax[1],
                          var_95 |-> sizing[3] ]
          /\ day = start - 1
    /\ pc = "loop"
    /\ date = NoDate
    /\ count = 0
    /\ current_prices = None
    /\ prev_prices = None
    /\ last_rebalance_date = None
    /\ tax_calls = <<>>
    /\ call = NoCall

Step(op) == [NoCall EXCEPT !.op = op, !.before = Some(portfolio)]

\* for date, prices in close_prices.iterrows()
NextDay ==
    /\ pc = "loop"
    /\ count < MaxDays
    /\ day < Len(Calendar)
    /\ day' = day + 1
    /\ date' = Calendar[day + 1]
    /\ current_prices' \in PriceRows
    /\ count' = count + 1
    /\ pc' = "stop_loss"
    /\ call' = Step("next_day")
    /\ UNCHANGED <<portfolio, strategy, prev_prices, last_rebalance_date, tax_calls>>

\* the loop is over: run_backtest returns the portfolio
Completed ==
    /\ pc = "loop"
    /\ (count >= MaxDays \/ day >= Len(Calendar))
    /\ pc' = "done"
    /\ call' = Step("completed")
    /\ UNCHANGED <<portfolio, strategy, day, date, count, current_prices, prev_prices,
                   last_rebalance_date, tax_calls>>

StopLossStep ==
    /\ pc = "stop_loss"
    /\ IF strategy.stop_loss_pct # 0 /\ prev_prices # None
       THEN \E top \in IF strategy.smart_stop_loss
                          /\ get_stop_loss_candidates(portfolio, prev_prices[1],
                                                      strategy.stop_loss_pct) # <<>>
                       THEN select_tickers(strategy, AvailableTickers(current_prices))
                       ELSE {<<>>} :
                /\ portfolio' = StopLossBlock(portfolio, strategy, date, current_prices,
                                              prev_prices[1], top)
                /\ call' = [Step("stop_loss") EXCEPT !.ret = Some(top)]
       ELSE /\ portfolio' = portfolio
            /\ call' = Step("stop_loss")
    /\ pc' = "tax"
    /\ UNCHANGED <<strategy, day, date, count, current_prices, prev_prices,
                   last_rebalance_date, tax_calls>>

TaxStep ==
    /\ pc = "tax"
    /\ IF SettlementDue(strategy.capital_gains_tax_enabled, date, last_rebalance_date)
       THEN /\ portfolio' = settle_annual_tax(portfolio, date)
            /\ tax_calls' = Append(tax_calls, date)
            /\ call' = Step("settle_annual_tax")
       ELSE /\ call' = Step("no_settlement")
            /\ UNCHANGED <<portfolio, tax_calls>>
    /\ pc' = "rebalance"
    /\ UNCHANGED <<strategy, day, date, count, current_prices, prev_prices,
                   last_rebalance_date>>

\* the VaR of the target tickers that have one
VarMap(strat, targets) ==
    [t \in {targets[i][1] : i \in 1..Len(targets)} \cap DOMAIN strat.var_95 |->
        strat.var_95[t]]

RebalanceStep ==
    /\ pc = "rebalance"
    /\ IF should_rebalance(strategy, date, last_rebalance_date)
       THEN /\ \E targets \in select_tickers(strategy, AvailableTickers(current_prices)) :
                  /\ portfolio' = rebalance(portfolio, targets, current_prices, date,
                                            VarMap(strategy, targets))
                  /\ call' = [Step("rebalance") EXCEPT !.ret = Some(targets)]
            /\ last_rebalance_date' = Some(date)
       ELSE /\ call' = Step("no_rebalance")
            /\ UNCHANGED <<portfolio, last_rebalance_date>>
    /\ pc' = "interest"
    /\ UNCHANGED <<strategy, day, date, count, current_prices, prev_prices, tax_calls>>

InterestStep ==
    /\ pc = "interest"
    /\ portfolio' = apply_daily_interest(portfolio)
    /\ pc' = "record"
    /\ call' = Step("apply_daily_interest")
    /\ UNCHANGED <<strategy, day, date, count, current_prices, prev_prices,
                   last_rebalance_date, tax_calls>>

RecordStep ==
    /\ pc = "record"
    /\ portfolio' = record_history(portfolio, date, current_prices)
    /\ prev_prices' = Some(current_prices)
    /\ pc' = "loop"
    /\ call' = Step("record_history")
    /\ UNCHANGED <<strategy, day, date, count, current_prices, last_rebalance_date,
                   tax_calls>>

Next ==
    \/ NextDay
    \/ StopLossStep
    \/ TaxStep
    \/ RebalanceStep
    \/ InterestStep
    \/ RecordStep
    \/ Completed

Spec == Init /\ [][Next]_vars

----------------------------------------------------------------------------
(* Claims about the run *)

\* C2: with margin disabled and initial capital >= 0, cash is >= 0 in every
\* reachable state of a run, whatever the fee and tax configuration.
C2_CashNeverNegativeWithoutMargin ==
    (~portfolio.margin_enabled /\ portfolio.initial_capital >= 0)
        => portfolio.cash >= 0

\* the number of settle_annual_tax invocations dated in year y
SettlementsIn(y) == Cardinality({i \in 1..Len(tax_calls) : tax_calls[i].year = y})

\* C3: with tax enabled, settle_annual_tax is invoked at most once per
\* calendar year.
C3_SettlementOncePerYear ==
    \A i \in 1..Len(tax_calls) : SettlementsIn(tax_calls[i].year) <= 1

\* C9: every quantity stored in holdings is an integer >= 1 in every
\* reachable state of a run.
C9_QuantitiesAtLeastOne ==
    \A t \in DOMAIN portfolio.holdings :
        portfolio.holdings[t] \in Nat /\ portfolio.holdings[t] >= 1

\* a run holds a position bought as the replacement of a stop-loss sale
C9_ReplacementBought ==
    /\ pc = "tax"
    /\ Cardinality(DOMAIN portfolio.holdings) >= 1
    /\ Len(portfolio.rebalance_history) > 0
    /\ portfolio.rebalance_history[Len(portfolio.rebalance_history)].type = "stop_loss_smart"
    /\ portfolio.rebalance_history[Len(portfolio.rebalance_history)].bought # <<>>

\* a run with margin disabled has bought, and paid a fee on top of the cost
C2_Bought ==
    /\ ~portfolio.margin_enabled
    /\ call.op = "rebalance"
    /\ DOMAIN portfolio.holdings # {}

\* settle_annual_tax was invoked on a January day after a rebalance in December
C3_Settled ==
    /\ tax_calls # <<>>
    /\ call.op = "settle_annual_tax"
    /\ last_rebalance_date # None

----------------------------------------------------------------------------
(* Claims about buy_ticker and sell_ticker, on the calls of SpecCalls *)

Before == call.before[1]
Bought == call.op = "buy"
Sold == call.op = "sell"
Position(self, t) ==
    <<Get(self.holdings, t, 0), Get(self.cost_basis, t, 0), Get(self.entry_prices, t, 0)>>

\* C1: after every buy and sell call, rejected ones included, holdings,
\* cost_basis and entry_prices have the same set of tickers as keys.
C1_SameKeys ==
    /\ DOMAIN portfolio.holdings = DOMAIN portfolio.cost_basis
    /\ DOMAIN portfolio.holdings = DOMAIN portfolio.entry_prices

\* one of two positions was sold: the other one is still in the three maps
C1_SoldOneOfTwo ==
    /\ Sold
    /\ call.ret # None
    /\ DOMAIN portfolio.holdings # {}

\* C4: selling a ticker that is not held returns no record and changes no
\* field of the portfolio (cash, the position maps, annual_realized_pnl, the
\* event log).
C4_SellUnheldNoOp ==
    (Sold /\ call.ticker \notin DOMAIN Before.holdings)
        => (call.ret = None /\ portfolio = Before)

\* an unheld ticker was sold while the other ticker is held
C4_SoldUnheld ==
    /\ Sold
    /\ call.ticker \notin DOMAIN Before.holdings
    /\ DOMAIN Before.holdings # {}
    /\ Before.transaction_fee_enabled

\* C5: selling a held ticker at price p removes it from the three maps, adds
\* quantity * p - fee to cash and reports revenue = quantity * p and
\* profit = revenue - cost_basis - fee, the fee being the configured percentage
\* of the revenue or the fixed amount.
C5_SellHeld ==
    (Sold /\ call.ticker \in DOMAIN Before.holdings) =>
        LET quantity == Before.holdings[call.ticker]
            revenue == quantity * call.price
            fee == IF ~Before.transaction_fee_enabled THEN 0
                   ELSE IF Before.transaction_fee_type = "percentage"
                   THEN (revenue * Before.transaction_fee_value) \div 100
                   ELSE Before.transaction_fee_value
        IN  /\ call.ret # None
            /\ call.ret[1].revenue = revenue
            /\ call.ret[1].fee = fee
            /\ call.ret[1].profit = revenue - Before.cost_basis[call.ticker] - fee
            /\ portfolio.cash = Before.cash + revenue - fee
            /\ call.ticker \notin DOMAIN portfolio.holdings
            /\ call.ticker \notin DOMAIN portfolio.cost_basis
            /\ call.ticker \notin DOMAIN portfolio.entry_prices

\* 100 shares bought at 100 with no fee are sold at 110: revenue 11000,
\* profit 1000, cash 11000
C5_Example ==
    /\ Sold
    /\ ~Before.transaction_fee_enabled
    /\ Position(Before, call.ticker) = <<100, 10000 * Dollar, 100 * Dollar>>
    /\ call.price = 110 * Dollar
    /\ call.ret # None
    /\ call.ret[1].revenue = 11000 * Dollar
    /\ call.ret[1].profit = 1000 * Dollar
    /\ portfolio.cash = 11000 * Dollar

\* floor(a / p), plus one share when margin is enabled
Shares(self, amount, price) ==
    (amount \div price) + (IF self.margin_enabled THEN 1 ELSE 0)

\* C6: an accepted buy with allocation a at price p > 0 stores quantity
\* floor(a / p) (plus one with margin), cost basis quantity * p and entry price
\* p, and takes quantity * p + fee from cash, a percentage fee being taken on
\* quantity * p.
C6_AcceptedBuy ==
    (Bought /\ call.ret # None) =>
        LET quantity == Shares(Before, call.amount, call.price)
            cost == quantity * call.price
            fee == IF ~Before.transaction_fee_enabled THEN 0
                   ELSE IF Before.transaction_fee_type = "percentage"
                   THEN (cost * Before.transaction_fee_value) \div 100
                   ELSE Before.transaction_fee_value
        IN  /\ call.price > 0
            /\ call.ret[1].quantity = quantity
            /\ call.ret[1].fee = fee
            /\ Position(portfolio, call.ticker) = <<quantity, cost, call.price>>
            /\ call.ticker \in DOMAIN portfolio.holdings
            /\ portfolio.cash = Before.cash - (cost + fee)

\* 10000 of cash, price 100, no fee, margin disabled: quantity 100, cash 0
C6_Example ==
    /\ Bought
    /\ ~Before.transaction_fee_enabled /\ ~Before.margin_enabled
    /\ Before.cash = 10000 * Dollar
    /\ call.amount = 10000 * Dollar /\ call.price = 100 * Dollar
    /\ call.ret # None
    /\ portfolio.holdings[call.ticker] = 100
    /\ portfolio.cash = 0

\* C7: a buy at a price <= 0, or whose computed quantity is <= 0, returns
\* nothing and leaves cash and the three position maps as they were.
C7_RejectedBuy ==
    (Bought /\ (call.price <= 0 \/ Shares(Before, call.amount, call.price) <= 0)) =>
        /\ call.ret = None
        /\ portfolio.cash = Before.cash
        /\ portfolio.holdings = Before.holdings
        /\ portfolio.cost_basis = Before.cost_basis
        /\ portfolio.entry_prices = Before.entry_prices

\* an allocation of less than one share, margin disabled, a position open
C7_LessThanOneShare ==
    /\ Bought
    /\ call.price > 0
    /\ call.amount > 0
    /\ Shares(Before, call.amount, call.price) = 0
    /\ DOMAIN Before.holdings # {}
    /\ call.ret = None

\* the shares a returned record stands for: none when the buy was rejected
Purchased(ret) == IF ret = None THEN 0 ELSE ret[1].quantity

\* C8: for the same allocation >= 0 and price > 0, the buy made with margin
\* enabled purchases exactly one share more than the same buy made with margin
\* disabled, a rejected buy counting as zero shares.
C8_MarginOneMore ==
    (Bought /\ call.amount >= 0 /\ call.price > 0) =>
        LET other == buy_ticker([Before EXCEPT !.margin_enabled = ~@], call.ticker,
                                call.amount, call.price, 0, None)
            with_margin == IF Before.margin_enabled THEN call.ret ELSE other.ret
            without == IF Before.margin_enabled THEN other.ret ELSE call.ret
        IN  Purchased(with_margin) = Purchased(without) + 1

\* a buy on margin took cash below zero
C8_CashNegative ==
    /\ Bought
    /\ Before.margin_enabled
    /\ call.amount >= 0 /\ call.price > 0
    /\ call.ret # None
    /\ Before.cash >= 0
    /\ portfolio.cash < 0

----------------------------------------------------------------------------
(* Claims about settle_annual_tax, on the calls of SpecTax *)

Settled == call.op = "settle_annual_tax"

\* C10 as stated: a settlement of a loss leaves loss_carryforward one entry
\* longer than before the settlement, the last entry being (year, |pnl|), and
\* takes no tax from cash.
C10_OneEntryLonger ==
    (Settled /\ Before.annual_realized_pnl < 0) =>
        /\ Len(portfolio.loss_carryforward) = Len(Before.loss_carryforward) + 1
        /\ portfolio.loss_carryforward[Len(portfolio.loss_carryforward)] =
               <<date.year, 0 - Before.annual_realized_pnl>>
        /\ portfolio.cash = Before.cash

\* C10 amended: a settlement of a loss leaves loss_carryforward equal to the
\* entries less than 5 years old it held, in their order, followed by
\* (year, |pnl|), and takes no tax from cash.
C10_LossAppendedAfterExpiry ==
    (Settled /\ Before.annual_realized_pnl < 0) =>
        /\ portfolio.loss_carryforward =
               Append(SelectSeq(Before.loss_carryforward,
                                LAMBDA e : date.year - e[1] < 5),
                      <<date.year, 0 - Before.annual_realized_pnl>>)
        /\ portfolio.cash = Before.cash
        /\ portfolio.annual_realized_pnl = 0

\* a loss is settled in the year in which an earlier loss expires
C10_LossSettledWithExpiredEntry ==
    /\ Settled
    /\ Before.annual_realized_pnl < 0
    /\ \E i \in 1..Len(Before.loss_carryforward) :
          date.year - Before.loss_carryforward[i][1] >= 5
    /\ Len(portfolio.loss_carryforward) = Len(Before.loss_carryforward)

\* the tax_settlement event the last settlement logged
LastEvent == portfolio.rebalance_history[Len(portfolio.rebalance_history)]

\* the sum of the first n deductions of a settlement
RECURSIVE Deducted(_, _)
Deducted(applied, n) ==
    IF n = 0 THEN 0 ELSE Deducted(applied, n - 1) + applied[n].deduction

\* C11: a settlement of a profit deducts from each carryforward entry at most
\* half of the entry's remaining loss and at most the profit not yet offset,
\* and takes from cash the tax rate times (pnl minus the sum of the deductions).
C11_DeductionsCapped ==
    (Settled /\ Before.annual_realized_pnl > 0) =>
        LET pnl == Before.annual_realized_pnl
            applied == LastEvent.loss_deductions
        IN  /\ LastEvent.type = "tax_settlement"
            /\ LastEvent.annual_pnl = pnl
            /\ \A n \in 1..Len(applied) :
                  /\ applied[n].deduction >= 0
                  /\ 2 * applied[n].deduction <= applied[n].original_loss
                  /\ applied[n].deduction <= pnl - Deducted(applied, n - 1)
            /\ Before.cash - portfolio.cash =
                   ((pnl - Deducted(applied, Len(applied)))
                       * Before.capital_gains_tax_pct) \div 100

\* a profit larger than half of the loss carried forward: half of the loss is
\* deducted and the rest of the profit is taxed
C11_HalfDeductedRestTaxed ==
    /\ Settled
    /\ Before.annual_realized_pnl > 0
    /\ Len(Before.loss_carryforward) = 1
    /\ Len(LastEvent.loss_deductions) = 1
    /\ 2 * LastEvent.loss_deductions[1].deduction = Before.loss_carryforward[1][2]
    /\ LastEvent.tax > 0
    /\ portfolio.cash < Before.cash

\* C12: at a settlement in year Y an entry of tax year Y-5 or earlier is
\* removed before any deduction is computed: no deduction of the settlement
\* comes from it and the carryforward no longer holds it afterwards.
C12_ExpiredEntryDropped ==
    Settled =>
        /\ \A i \in 1..Len(portfolio.loss_carryforward) :
              date.year - portfolio.loss_carryforward[i][1] < 5
        /\ (Before.annual_realized_pnl > 0) =>
              \A n \in 1..Len(LastEvent.loss_deductions) :
                  date.year - LastEvent.loss_deductions[n].year < 5

\* a profit is settled exactly 5 years after the only loss carried forward:
\* nothing is deducted and the whole profit is taxed
C12_ProfitSettledAfterExpiry ==
    /\ Settled
    /\ Before.annual_realized_pnl > 0
    /\ Len(Before.loss_carryforward) = 1
    /\ date.year - Before.loss_carryforward[1][1] = 5
    /\ LastEvent.loss_deductions = <<>>
    /\ LastEvent.taxable_profit = Before.annual_realized_pnl
    /\ portfolio.loss_carryforward = <<>>

----------------------------------------------------------------------------
(* SpecYears: run_backtest over the first trading day of January of each year,
   tax enabled, one ticker held at a time and rebalanced every day *)

YearsCalendar ==
    << [year |-> 2020, month |-> 1, ord |-> 17],     \* 2020-01-02
       [year |-> 2021, month |-> 1, ord |-> 385],    \* 2021-01-04
       [year |-> 2022, month |-> 1, ord |-> 749],    \* 2022-01-03
       [year |-> 2023, month |-> 1, ord |-> 1114],   \* 2023-01-03
       [year |-> 2024, month |-> 1, ord |-> 1478],   \* 2024-01-02
       [year |-> 2025, month |-> 1, ord |-> 1844],   \* 2025-01-02
       [year |-> 2026, month |-> 1, ord |-> 2209],   \* 2026-01-02
       [year |-> 2027, month |-> 1, ord |-> 2576],   \* 2027-01-04
       [year |-> 2028, month |-> 1, ord |-> 2940] >> \* 2028-01-03

\* the rows of the price table: A falls and recovers, B is flat
YearsPriceRows == { [t \in Tickers |-> IF t = "A" THEN a ELSE 100 * Dollar] :
                       a \in {80 * Dollar, 100 * Dollar} }

InitYears ==
    /\ portfolio = Portfolio(InitialCapital, <<FALSE, "percentage", 0>>, <<TRUE, 20>>,
                             FALSE, "equal")
    /\ strategy = [ n_tickers |-> 1,
                    rebalance_period |-> 1,
                    rebalance_period_unit |-> "days",
                    stop_loss_pct |-> 0,
                    smart_stop_loss |-> FALSE,
                    capital_gains_tax_enabled |-> TRUE,
                    var_95 |-> <<>> ]
    /\ day = 0
    /\ pc = "loop"
    /\ date = NoDate
    /\ count = 0
    /\ current_prices = None
    /\ prev_prices = None
    /\ last_rebalance_date = None
    /\ tax_calls = <<>>
    /\ call = NoCall

\* for date, prices in close_prices.iterrows()
NextYear ==
    /\ pc = "loop"
    /\ count < MaxYears
    /\ day < Len(YearsCalendar)
    /\ day' = day + 1
    /\ date' = YearsCalendar[day + 1]
    /\ current_prices' \in YearsPriceRows
    /\ count' = count + 1
    /\ pc' = "stop_loss"
    /\ call' = Step("next_day")
    /\ UNCHANGED <<portfolio, strategy, prev_prices, last_rebalance_date, tax_calls>>

YearsCompleted ==
    /\ pc = "loop"
    /\ (count >= MaxYears \/ day >= Len(YearsCalendar))
    /\ pc' = "done"
    /\ call' = Step("completed")
    /\ UNCHANGED <<portfolio, strategy, day, date, count, current_prices, prev_prices,
                   last_rebalance_date, tax_calls>>

NextYears ==
    \/ NextYear
    \/ StopLossStep
    \/ TaxStep
    \/ RebalanceStep
    \/ InterestStep
    \/ RecordStep
    \/ YearsCompleted

SpecYears == InitYears /\ [][NextYears]_vars

\* C13 as stated: in every reachable state of a run every loss_carryforward
\* entry has a remaining loss > 0 and an age (simulated year minus the entry's
\* tax year) < 5.
C13_EntriesPositiveAndYoung ==
    \A i \in 1..Len(portfolio.loss_carryforward) :
        /\ portfolio.loss_carryforward[i][2] > 0
        /\ date.year - portfolio.loss_carryforward[i][1] < 5

\* the day's settlement step is still to come
BeforeSettlementStep == pc \in {"stop_loss", "tax"}

\* C13 amended: in every reachable state of a run every loss_carryforward entry
\* has a remaining loss > 0 and an age <= 5, and an age < 5 in every state from
\* the day's settlement step on.
C13_EntriesPositiveAndYoungOnceSettled ==
    \A i \in 1..Len(portfolio.loss_carryforward) :
        /\ portfolio.loss_carryforward[i][2] > 0
        /\ date.year - portfolio.loss_carryforward[i][1] <= 5
        /\ ~BeforeSettlementStep => date.year - portfolio.loss_carryforward[i][1] < 5

\* the settlement of a year dropped an entry aged 5 and kept a younger one
C13_SettledWithOldAndYoungEntry ==
    /\ pc = "rebalance"
    /\ call.op = "settle_annual_tax"
    /\ \E i \in 1..Len(Before.loss_carryforward) :
          date.year - Before.loss_carryforward[i][1] = 5
    /\ portfolio.loss_carryforward # <<>>

----------------------------------------------------------------------------
(* Claims about annual_realized_pnl, on the steps of the run *)

\* the step just taken appended an event to rebalance_history
Logged == Len(portfolio.rebalance_history) > Len(Before.rebalance_history)

\* the net profit of the sales recorded by an event
SoldProfit(event) ==
    SumOver(Columns, 1, [t \in Tickers |->
                IF t \in DOMAIN event.sold THEN event.sold[t].profit ELSE 0])

\* C14: apart from the reset at settlement, annual_realized_pnl changes only
\* by the net profit of the sales of a step, with tax enabled: a step without
\* a sale (buys, interest, stop-loss flagging, the snapshot) leaves it
\* unchanged, and with tax disabled it is 0 in every state.
C14_OnlySalesChangePnl ==
    (call.before # None) =>
        /\ ~Before.capital_gains_tax_enabled => portfolio.annual_realized_pnl = 0
        /\ (call.op # "settle_annual_tax") =>
              portfolio.annual_realized_pnl = Before.annual_realized_pnl +
                  (IF Logged /\ Before.capital_gains_tax_enabled
                   THEN SoldProfit(LastEvent) ELSE 0)

\* with tax enabled, a rebalance sold a position at a loss or a gain and bought
\* another one
C14_SoldAndBought ==
    /\ call.op = "rebalance"
    /\ Before.capital_gains_tax_enabled
    /\ DOMAIN LastEvent.sold # {}
    /\ LastEvent.bought # <<>>
    /\ portfolio.annual_realized_pnl # Before.annual_realized_pnl

\* the tax_settlement events logged so far
Settlements ==
    SelectSeq(portfolio.rebalance_history, LAMBDA e : e.type = "tax_settlement")

\* C15: after every settlement with tax enabled annual_realized_pnl is 0,
\* whether the year settled ended in a profit, a loss or zero.
C15_PnlResetBySettlement ==
    (Settled /\ Before.capital_gains_tax_enabled) => portfolio.annual_realized_pnl = 0

\* a year with a profit was settled, after a year with a loss and a year with
\* nothing realised
C15_ProfitLossAndZeroSettled ==
    /\ Settled
    /\ Before.capital_gains_tax_enabled
    /\ Before.annual_realized_pnl > 0
    /\ Len(tax_calls) > Len(Settlements)
    /\ \E i \in 1..Len(Settlements) : Settlements[i].annual_pnl < 0

----------------------------------------------------------------------------
(* SpecStop: run_backtest with a stop loss of 10 %, positions opened on the
   first day and kept for a month, closes around the stop-loss threshold *)

\* a row of the price table: A closes at 89, 90, 91 or 100, or is missing
StopPriceRows == { [t \in Tickers |-> IF t = "A" THEN a ELSE 100 * Dollar] :
                      a \in {NaN, 89 * Dollar, 90 * Dollar, 91 * Dollar, 100 * Dollar} }

InitStop ==
    /\ \E smart \in BOOLEAN, n \in {1, 2} :
          strategy = [ n_tickers |-> n,
                       rebalance_period |-> 1,
                       rebalance_period_unit |-> "months",
                       stop_loss_pct |-> 10,
                       smart_stop_loss |-> smart,
                       capital_gains_tax_enabled |-> FALSE,
                       var_95 |-> <<>> ]
    /\ portfolio = Portfolio(InitialCapital, <<FALSE, "percentage", 0>>, <<FALSE, 0>>,
                             FALSE, "equal")
    /\ day = 0
    /\ pc = "loop"
    /\ date = NoDate
    /\ count = 0
    /\ current_prices = None
    /\ prev_prices = None
    /\ last_rebalance_date = None
    /\ tax_calls = <<>>
    /\ call = NoCall

\* for date, prices in close_prices.iterrows()
NextStopDay ==
    /\ pc = "loop"
    /\ count < MaxDays
    /\ day < Len(Calendar)
    /\ day' = day + 1
    /\ date' = Calendar[day + 1]
    /\ current_prices' \in StopPriceRows
    /\ count' = count + 1
    /\ pc' = "stop_loss"
    /\ call' = Step("next_day")
    /\ UNCHANGED <<portfolio, strategy, prev_prices, last_rebalance_date, tax_calls>>

NextStop ==
    \/ NextStopDay
    \/ StopLossStep
    \/ TaxStep
    \/ RebalanceStep
    \/ InterestStep
    \/ RecordStep
    \/ Completed

SpecStop == InitStop /\ [][NextStop]_vars

\* the tickers the stop-loss block of the step just taken had as candidates
Flagged ==
    IF prev_prices = None THEN {}
    ELSE LET c == get_stop_loss_candidates(Before, prev_prices[1], strategy.stop_loss_pct)
         IN  {c[i] : i \in 1..Len(c)}

\* the tickers the step just taken closed
Closed == DOMAIN Before.holdings \ DOMAIN portfolio.holdings

\* C16: with a stop loss configured and a prior day present, a held ticker is a
\* stop-loss candidate exactly when its prior-day close is valid and strictly
\* below entry_price * (1 - stop_loss_pct), only candidates are sold (all those
\* with a price today, in plain mode), and on the first day nothing is flagged
\* or sold.
C16_FlaggedBelowThreshold ==
    (call.op = "stop_loss" /\ strategy.stop_loss_pct # 0) =>
        /\ prev_prices = None => (Flagged = {} /\ portfolio = Before)
        /\ prev_prices # None =>
              \A t \in DOMAIN Before.holdings :
                  t \in Flagged <=>
                      /\ t \in DOMAIN prev_prices[1]
                      /\ prev_prices[1][t] # NaN
                      /\ prev_prices[1][t] * 100 <
                             Before.entry_prices[t] * (100 - strategy.stop_loss_pct)
        /\ Closed \subseteq Flagged
        /\ ~strategy.smart_stop_loss =>
              Closed = {t \in Flagged : current_prices[t] # NaN}

\* entry 100, stop loss 10 %: a prior close of 89 flags A and A is sold
C16_Close89Flags ==
    /\ call.op = "stop_loss"
    /\ prev_prices # None
    /\ "A" \in DOMAIN Before.holdings
    /\ Before.entry_prices["A"] = 100 * Dollar
    /\ prev_prices[1]["A"] = 89 * Dollar
    /\ "A" \in Flagged
    /\ "A" \in Closed

----------------------------------------------------------------------------
(* Claims about the valuation snapshot, on the steps of the run *)

\* the snapshot record_history appended last
LastSnapshot == portfolio.history[Len(portfolio.history)]

\* quantity * price over the held tickers that have a valid price
ValidHoldingsValue(self, prices) ==
    SumOver(Columns, 1, [t \in Tickers |->
                IF t \in DOMAIN self.holdings /\ Valid(prices, t)
                THEN self.holdings[t] * prices[t] ELSE 0])

----------------------------------------------------------------------------
(* MomentumStrategy *)

\* slice_current[ticker].dropna(): the valid prices of a ticker up to row `upto`
TickerPrices(close_prices, ticker, upto) ==
    LET column == [i \in 1..upto |-> close_prices[i][ticker]]
    IN  SelectSeq(column, LAMBDA p : ~IsNa(p))

\* (end_price - start_price) / start_price, in units of 0.0001; prices are
\* multiples of 100 units, and the quotient is taken in two steps to stay in range
Momentum(end_price, start_price) ==
    ((end_price - start_price) * 100) \div (start_price \div 100)

\* max(0, min(90, ret * 50)) rounded to 2 decimals, in units of 0.0001
MomentumScore(ret) ==
    LET raw_score == ret * 50
        score == Max(0, Min(90 * 10000, raw_score))
    IN  ((score + 50) \div 100) * 100

NegativeFilteredNever(strat, ret) == FALSE

\* if self.filter_negative_momentum and ret < 0: continue
NegativeFiltered(strat, ret) == strat.filter_negative_momentum /\ ret < 0

\* the entries appended to detailed_scores for the tickers from i on
RECURSIVE DetailedScores(_, _, _, _, _)
DetailedScores(strat, available_tickers, current, i, acc) ==
    IF i > Len(available_tickers)
    THEN acc
    ELSE
        LET ticker == available_tickers[i]
            ticker_prices == TickerPrices(strat.close_prices, ticker, current)
            n == Len(ticker_prices)
            end_price == ticker_prices[n]
            start_price == ticker_prices[n - strat.lookback_days]
            ret == Momentum(end_price, start_price)
            skip == \/ n < strat.lookback_days + 1
                    \/ start_price = 0
                    \/ NegativeFiltered(strat, ret)
        IN  DetailedScores(strat, available_tickers, current, i + 1,
                IF skip THEN acc
                ELSE Append(acc, [ticker |-> ticker, momentum |-> ret,
                                  score |-> MomentumScore(ret)]))

KeyGreaterByScore(x, y) == x.score > y.score

\* the sort key (score, momentum) of x is greater than that of y
KeyGreater(x, y) ==
    x.score > y.score \/ (x.score = y.score /\ x.momentum > y.momentum)

\* list.sort(key, reverse=True): descending, entries with equal keys keep their order
RECURSIVE SortedDescending(_)
SortedDescending(list) ==
    IF list = <<>> THEN <<>>
    ELSE
        LET rest == SortedDescending(SubSeq(list, 1, Len(list) - 1))
            x == list[Len(list)]
            before == SelectSeq(rest, LAMBDA y : ~KeyGreater(x, y))
            after == SelectSeq(rest, LAMBDA y : KeyGreater(x, y))
        IN  before \o <<x>> \o after

get_detailed_momentum(strat, available_tickers, current) ==
    IF current < 1
    THEN <<>>
    ELSE SortedDescending(DetailedScores(strat, available_tickers, current, 1, <<>>))

\* the second component of a pair MomentumStrategy.select_tickers returns
SelectedValue(item) == item.momentum

\* MomentumStrategy.select_tickers
momentum_select_tickers(strat, available_tickers, current) ==
    LET detailed_scores == get_detailed_momentum(strat, available_tickers, current)
        top == SubSeq(detailed_scores, 1, Min(strat.n_tickers, Len(detailed_scores)))
    IN  [i \in 1..Len(top) |-> <<top[i].ticker, SelectedValue(top[i])>>]

----------------------------------------------------------------------------
(* SpecMomentum: MomentumStrategy.select_tickers on a price table *)

MomentumPrices == { NaN, 50 * Dollar, 100 * Dollar, 200 * Dollar }

\* the price tables of MomentumDays rows
MomentumTables == [1..MomentumDays -> [Tickers -> MomentumPrices]]

InitMomentum ==
    /\ \E table \in MomentumTables, n \in {1, 2}, filter \in BOOLEAN :
          strategy = [ n_tickers |-> n,
                       lookback_days |-> 1,
                       filter_negative_momentum |-> filter,
                       close_prices |-> table ]
    /\ portfolio = None
    /\ pc = "momentum"
    /\ day = 0
    /\ date = NoDate
    /\ count = 0
    /\ current_prices = None
    /\ prev_prices = None
    /\ last_rebalance_date = None
    /\ tax_calls = <<>>
    /\ call = NoCall

\* select_tickers called as run_backtest calls it, on the tickers priced that day
SelectMomentum ==
    /\ pc = "momentum"
    /\ \E current \in 1..MomentumDays :
          /\ day' = current
          /\ current_prices' = strategy.close_prices[current]
          /\ call' = [NoCall EXCEPT
                        !.op = "select_tickers",
                        !.ret = Some(momentum_select_tickers(strategy,
                                    AvailableTickers(strategy.close_prices[current]),
                                    current))]
    /\ pc' = "selected"
    /\ count' = count + 1
    /\ UNCHANGED <<portfolio, strategy, date, prev_prices, last_rebalance_date, tax_calls>>

NextMomentum == SelectMomentum

SpecMomentum == InitMomentum /\ [][NextMomentum]_vars

\* the list select_tickers returned
Selected == call.ret[1]

\* clamp(return * 50, 0, 90) of a ticker over the lookback ending on the day of
\* the call, in units of 0.0001
ScoreOf(ticker) ==
    LET prices == TickerPrices(strategy.close_prices, ticker, day)
        ret == Momentum(prices[Len(prices)], prices[Len(prices) - strategy.lookback_days])
    IN  Max(0, Min(90 * 10000, ret * 50))

\* C18: select returns an ordered list of (ticker, score) pairs; for Momentum
\* the second component of each pair is the ticker's score
\* clamp(return * 50, 0, 90).
C18_MomentumReturnsScores ==
    (pc = "selected") =>
        \A i \in 1..Len(Selected) : Selected[i][2] = ScoreOf(Selected[i][1])

\* a ticker that doubled over the lookback is selected
C18_SelectedDoubled ==
    /\ pc = "selected"
    /\ \E i \in 1..Len(Selected) :
          /\ ScoreOf(Selected[i][1]) = 50 * 10000
          /\ Selected[i][2] = 10000

----------------------------------------------------------------------------
(* Claims about the determinism of the run *)

\* what the rebalance of this state can leave as valuation history and event log
RebalanceOutcomes ==
    { LET after == rebalance(portfolio, targets, current_prices, date,
                             VarMap(strategy, targets))
      IN  <<after.history, after.rebalance_history>> :
        targets \in select_tickers(strategy, AvailableTickers(current_prices)) }

\* what the stop-loss block of this state can leave as valuation history and event log
StopLossOutcomes ==
    { LET after == StopLossBlock(portfolio, strategy, date, current_prices,
                                 prev_prices[1], top)
      IN  <<after.history, after.rebalance_history>> :
        top \in select_tickers(strategy, AvailableTickers(current_prices)) }

Rebalancing == pc = "rebalance" /\ should_rebalance(strategy, date, last_rebalance_date)

StoppingLoss ==
    /\ pc = "stop_loss"
    /\ strategy.stop_loss_pct # 0
    /\ prev_prices # None
    /\ strategy.smart_stop_loss

Sampling == Len(AvailableTickers(current_prices)) > strategy.n_tickers

----------------------------------------------------------------------------
(* calculate_metrics *)

YearsPositiveOrZero(days) == days >= 0

\* years = days / 365.25; if years > 0
YearsPositive(days) == days > 0

\* (end_value / start_value) ** (1 / years) - 1, kept as the term it is; the
\* division 1 / years raises ZeroDivisionError when years is 0
Annualised(end_value, start_value, days) ==
    IF days = 0
    THEN [raised |-> "ZeroDivisionError"]
    ELSE [raised |-> "", base |-> <<end_value, start_value>>, root |-> <<days * 100, 36525>>]

\* The total_return, cagr and final_value of the dict calculate_metrics returns
\* ({} for an empty history), and the exception it raised, if any.
calculate_metrics(history) ==
    IF history = <<>>
    THEN [raised |-> "", ret |-> <<>>]
    ELSE
        LET start_value == history[1].total_value
            end_value == history[Len(history)].total_value
            \* a numpy division: 0 / 0 and x / 0 give nan and inf, NaN propagates
            total_return == IF start_value = 0 \/ IsNa(start_value) \/ IsNa(end_value)
                            THEN NaN
                            ELSE ((end_value - start_value) * 100) \div (start_value \div 100)
            days == history[Len(history)].date.ord - history[1].date.ord
            power == Annualised(end_value, start_value, days)
        IN  IF YearsPositive(days)
            THEN IF power.raised # ""
                 THEN [raised |-> power.raised, ret |-> <<>>]
                 ELSE [raised |-> "",
                       ret |-> [total_return |-> total_return, cagr |-> power,
                                final_value |-> end_value]]
            ELSE [raised |-> "",
                  ret |-> [total_return |-> total_return, cagr |-> 0,
                           final_value |-> end_value]]

----------------------------------------------------------------------------
(* SpecMetrics: calculate_metrics on the history of a finished run *)

MetricsValues == { 0, 9000 * Dollar, 10000 * Dollar }

\* the histories of up to MetricsLen snapshots, one a day, on increasing days
Histories ==
    UNION { { [i \in 1..n |-> [date |-> Calendar[days[i]], total_value |-> values[i],
                               cash |-> values[i]]] :
                days \in {d \in [1..n -> 1..Len(Calendar)] :
                             \A i \in 1..(n - 1) : d[i] < d[i + 1]},
                values \in [1..n -> MetricsValues] } :
            n \in 0..MetricsLen }

InitMetrics ==
    /\ \E h \in Histories :
          portfolio = [Portfolio(InitialCapital, <<FALSE, "percentage", 0>>, <<FALSE, 0>>,
                                 FALSE, "equal") EXCEPT !.history = h]
    /\ strategy = None
    /\ pc = "metrics"
    /\ day = 0
    /\ date = NoDate
    /\ count = 0
    /\ current_prices = None
    /\ prev_prices = None
    /\ last_rebalance_date = None
    /\ tax_calls = <<>>
    /\ call = NoCall

CalculateMetrics ==
    /\ pc = "metrics"
    /\ call' = [NoCall EXCEPT !.op = "calculate_metrics",
                              !.ret = Some(calculate_metrics(portfolio.history)),
                              !.before = Some(portfolio)]
    /\ pc' = "reported"
    /\ count' = count + 1
    /\ UNCHANGED <<portfolio, strategy, day, date, current_prices, prev_prices,
                   last_rebalance_date, tax_calls>>

NextMetrics == CalculateMetrics

SpecMetrics == InitMetrics /\ [][NextMetrics]_vars

\* what calculate_metrics returned, and whether it raised
Metrics == call.ret[1]

OneDayHistory ==
    /\ portfolio.history # <<>>
    /\ portfolio.history[1].date = portfolio.history[Len(portfolio.history)].date

\* C20: when the first and the last date of the history coincide,
\* calculate_metrics raises nothing and returns a CAGR of 0.
C20_CagrZeroOnOneDay ==
    (pc = "reported" /\ OneDayHistory) =>
        /\ Metrics.raised = ""
        /\ "cagr" \in DOMAIN Metrics.ret
        /\ Metrics.ret.cagr = 0

\* the metrics of a history of one snapshot
C20_OneSnapshot ==
    /\ pc = "reported"
    /\ Len(portfolio.history) = 1
    /\ portfolio.history[1].total_value = 10000 * Dollar
    /\ Metrics.ret.final_value = 10000 * Dollar

----------------------------------------------------------------------------
(* ScoringStrategy *)

\* one point of score, in model units: thirds, 12ths, 17ths and 22nds of a
\* point are whole numbers of units
Point == 12 * 17 * 11

\* DataFrame.ffill(): each missing price takes the last valid price before it
FFill(rows, n) ==
    [r \in 1..n |->
        [t \in Tickers |->
            IF ~IsNa(rows[r][t]) THEN rows[r][t]
            ELSE LET valid == {k \in 1..r : ~IsNa(rows[k][t])}
                 IN  IF valid = {} THEN NaN
                     ELSE rows[CHOOSE k \in valid : \A j \in valid : j <= k][t]]]

\* (current_price - past_price) / past_price, in percent
ScoringReturn(current_price, past_price) ==
    ((current_price - past_price) * 100) \div past_price

ReturnScoreUnclamped(current_price, past_price, min_thresh, max_thresh) ==
    IF IsNa(current_price) \/ past_price = None \/ IsNa(past_price[1]) \/ past_price[1] <= 0
    THEN 0
    ELSE LET ret == ScoringReturn(current_price, past_price[1])
         IN  IF ret < min_thresh THEN 0
             ELSE (30 * Point * (ret - min_thresh)) \div (max_thresh - min_thresh)

\* ScoringStrategy._calculate_return_score; past_price is None or Some(price),
\* the thresholds are in percent
ReturnScore(current_price, past_price, min_thresh, max_thresh) ==
    IF IsNa(current_price) \/ past_price = None \/ IsNa(past_price[1]) \/ past_price[1] <= 0
    THEN 0
    ELSE LET ret == ScoringReturn(current_price, past_price[1])
         IN  IF ret < min_thresh THEN 0
             ELSE IF ret > max_thresh THEN 30 * Point
             ELSE (30 * Point * (ret - min_thresh)) \div (max_thresh - min_thresh)

\* get_past_price: the price `offset` rows before row loc (rows count from 1)
PastPrice(close_prices, loc, ticker, offset) ==
    IF loc - 1 < offset THEN None ELSE Some(close_prices[loc - offset][ticker])

\* the sum and the number of the valid prices of a ticker in rows from..to
RECURSIVE WindowSum(_, _, _, _)
WindowSum(close_prices, ticker, from, to) ==
    IF from > to THEN <<0, 0>>
    ELSE IF from = to
    THEN LET p == close_prices[from][ticker]
         IN  IF IsNa(p) THEN <<0, 0>> ELSE <<p, 1>>
    ELSE LET mid == (from + to) \div 2
             left == WindowSum(close_prices, ticker, from, mid)
             right == WindowSum(close_prices, ticker, mid + 1, to)
         IN  <<left[1] + right[1], left[2] + right[2]>>

\* 30 when the price is above the mean of the last 200 rows, 200 rows being there
SmaScore(close_prices, loc, ticker) ==
    IF loc - 1 >= 199
    THEN LET window == WindowSum(close_prices, ticker, loc - 199, loc)
         IN  IF window[2] > 0 /\ close_prices[loc][ticker] * window[2] > window[1]
             THEN 30 * Point ELSE 0
    ELSE 0

\* total_score of a ticker at row loc
TotalScore(close_prices, loc, ticker) ==
    LET p_curr == close_prices[loc][ticker]
    IN  ReturnScore(p_curr, PastPrice(close_prices, loc, ticker, 20), 3, 15)
          + ReturnScore(p_curr, PastPrice(close_prices, loc, ticker, 40), 3, 20)
          + ReturnScore(p_curr, PastPrice(close_prices, loc, ticker, 60), 3, 25)
          + SmaScore(close_prices, loc, ticker)

\* scores.sort(key=score, reverse=True): descending, equal scores keep their order
RECURSIVE SortedByScore(_)
SortedByScore(scores) ==
    IF scores = <<>> THEN <<>>
    ELSE
        LET rest == SortedByScore(SubSeq(scores, 1, Len(scores) - 1))
            x == scores[Len(scores)]
        IN  SelectSeq(rest, LAMBDA y : y[2] >= x[2]) \o <<x>>
              \o SelectSeq(rest, LAMBDA y : y[2] < x[2])

\* ScoringStrategy.select_tickers at row loc of the forward-filled table; loc = 0
\* stands for a date that is not in the index
scoring_select_tickers(strat, close_prices, available_tickers, loc) ==
    IF loc < 1 \/ loc > Len(close_prices)
    THEN <<>>
    ELSE
        LET scored == SelectSeq(available_tickers,
                                LAMBDA t : ~IsNa(close_prices[loc][t]))
            scores == [i \in 1..Len(scored) |->
                          <<scored[i], TotalScore(close_prices, loc, scored[i])>>]
            sorted == SortedByScore(scores)
        IN  SubSeq(sorted, 1, Min(strat.n_tickers, Len(sorted)))

----------------------------------------------------------------------------
(* SpecScoring: ScoringStrategy.select_tickers on a price table *)

\* the lengths of the tables: with and without the rows 20, 40, 60 and 199
\* rows back
ScoringLens == { 1, 21, 41, 61, 200, 201 }

ScoringPasts == { 50 * Dollar, 100 * Dollar }

ScoringCurrents ==
    { NaN } \cup { d * Dollar : d \in { 100, 102, 103, 109, 115, 116, 120, 125, 126, 130 } }

\* a table of n rows: ticker A is at `old` up to 61 rows before the last, then
\* at p60, p40 and p20 for 20 rows each, and at cur in the last row; B stays at
\* 100 dollars
ScoringTable(n, old, p60, p40, p20, cur) ==
    [r \in 1..n |->
        [t \in Tickers |->
            IF t # "A" THEN 100 * Dollar
            ELSE IF r = n THEN cur
            ELSE IF r >= n - 20 THEN p20
            ELSE IF r >= n - 40 THEN p40
            ELSE IF r >= n - 60 THEN p60
            ELSE old]]

ScoringTables ==
    { ScoringTable(n, old, p[1], p[2], p[3], cur) :
        n \in ScoringLens, old \in { NaN, 100 * Dollar },
        p \in ScoringPasts \X ScoringPasts \X ScoringPasts, cur \in ScoringCurrents }

\* ScoringStrategy.__init__ keeps the forward-filled table
InitScoring ==
    /\ \E table \in ScoringTables, n \in {1, 2} :
          /\ strategy = [ n_tickers |-> n, close_prices |-> FFill(table, Len(table)) ]
          /\ current_prices = table[Len(table)]
    /\ portfolio = None
    /\ pc = "scoring"
    /\ day = 0
    /\ date = NoDate
    /\ count = 0
    /\ prev_prices = None
    /\ last_rebalance_date = None
    /\ tax_calls = <<>>
    /\ call = NoCall

\* select_tickers called as run_backtest calls it, on the last day of the table
\* and on the tickers priced that day
SelectScoring ==
    /\ pc = "scoring"
    /\ day' = Len(strategy.close_prices)
    /\ call' = [NoCall EXCEPT
                  !.op = "select_tickers",
                  !.ret = Some(scoring_select_tickers(strategy, strategy.close_prices,
                                  AvailableTickers(current_prices),
                                  Len(strategy.close_prices)))]
    /\ pc' = "scored"
    /\ count' = count + 1
    /\ UNCHANGED <<portfolio, strategy, date, current_prices, prev_prices, last_rebalance_date, tax_calls>>

NextScoring == SelectScoring

SpecScoring == InitScoring /\ [][NextScoring]_vars

\* a sub-score of ticker t on the day of the call: the return over `offset`
\* rows scored between 3 percent and max_thresh percent
SubScore(t, offset, max_thresh) ==
    ReturnScore(strategy.close_prices[day][t],
                PastPrice(strategy.close_prices, day, t, offset), 3, max_thresh)

\* the return of ticker t over `offset` rows, in percent
ReturnOver(t, offset) ==
    ScoringReturn(strategy.close_prices[day][t], strategy.close_prices[day - offset][t])

\* the three return windows of the Scoring strategy: rows back, upper bound
ScoringWindows == { <<20, 15>>, <<40, 20>>, <<60, 25>> }

\* the returns that the table defines
HasReturn(t, offset) ==
    /\ day - 1 >= offset
    /\ ~IsNa(strategy.close_prices[day][t])
    /\ ~IsNa(strategy.close_prices[day - offset][t])

----------------------------------------------------------------------------
(* Claims about the order of the steps of a day, on the steps of the run *)

SettlementOps == {"settle_annual_tax", "no_settlement"}
RebalanceOps == {"rebalance", "no_rebalance"}

\* the events logged with today's date, in the order of the log
TodaysEvents == SelectSeq(portfolio.rebalance_history, LAMBDA e : e.date = date)

\* C22: the steps of a day run in the order stop-loss check, tax settlement,
\* rebalance, margin interest, snapshot; each day is later than the day before;
\* the snapshot is dated today and holds the cash left by the day's earlier
\* steps.
C22_StepsInDayOrder ==
    [][ /\ call'.op = "next_day" =>
              /\ call.op \in {"none", "record_history"}
              /\ date # NoDate => date'.ord > date.ord
        /\ call'.op # "next_day" => date' = date /\ current_prices' = current_prices
        /\ call'.op = "stop_loss" => call.op = "next_day"
        /\ call'.op \in SettlementOps => call.op = "stop_loss"
        /\ call'.op \in RebalanceOps => call.op \in SettlementOps
        /\ call'.op = "apply_daily_interest" => call.op \in RebalanceOps
        /\ call'.op = "record_history" =>
              /\ call.op = "apply_daily_interest"
              /\ Len(portfolio'.history) = Len(portfolio.history) + 1
              /\ portfolio'.history[Len(portfolio'.history)].date = date
              /\ portfolio'.history[Len(portfolio'.history)].cash = portfolio.cash
              /\ portfolio'.cash = portfolio.cash
              /\ portfolio'.holdings = portfolio.holdings
      ]_vars

\* the snapshot of a day on which a stop-loss sale and then a tax settlement
\* were logged, its cash differing from the cash of the snapshot before
C22_SnapshotAfterSaleAndSettlement ==
    /\ call.op = "record_history"
    /\ Len(TodaysEvents) = 2
    /\ TodaysEvents[1].type = "stop_loss"
    /\ TodaysEvents[2].type = "tax_settlement"
    /\ Len(portfolio.history) >= 2
    /\ LastSnapshot.cash = portfolio.cash
    /\ LastSnapshot.cash # portfolio.history[Len(portfolio.history) - 1].cash

----------------------------------------------------------------------------
(* Claims about the events of the log *)

\* C23: every settlement with tax enabled appends exactly one tax_settlement
\* event, which records the pnl settled, the taxable profit, the deductions,
\* the remaining carryforward, the tax and the resulting cash, also when the
\* pnl settled is zero.
C23_SettlementLogged ==
    (Settled /\ Before.capital_gains_tax_enabled) =>
        /\ Len(portfolio.rebalance_history) = Len(Before.rebalance_history) + 1
        /\ LastEvent.type = "tax_settlement"
        /\ LastEvent.annual_pnl = Before.annual_realized_pnl
        /\ LastEvent.remaining_losses = portfolio.loss_carryforward
        /\ LastEvent.tax = Before.cash - portfolio.cash
        /\ LastEvent.cash = portfolio.cash

\* C23 amended: a settlement of a year whose realized pnl is not zero appends
\* exactly one tax_settlement event with these records; a settlement of a year
\* whose realized pnl is zero appends nothing.
C23_SettlementLoggedUnlessZero ==
    (Settled /\ Before.capital_gains_tax_enabled) =>
        IF Before.annual_realized_pnl # 0
        THEN /\ Len(portfolio.rebalance_history) = Len(Before.rebalance_history) + 1
             /\ LastEvent.type = "tax_settlement"
             /\ LastEvent.annual_pnl = Before.annual_realized_pnl
             /\ LastEvent.remaining_losses = portfolio.loss_carryforward
             /\ LastEvent.tax = Before.cash - portfolio.cash
             /\ LastEvent.cash = portfolio.cash
        ELSE /\ portfolio.rebalance_history = Before.rebalance_history
             /\ portfolio.cash = Before.cash

\* a year without realized profit or loss was settled and nothing was logged
C23_ZeroPnlSettledUnlogged ==
    /\ Settled
    /\ Before.capital_gains_tax_enabled
    /\ Before.annual_realized_pnl = 0
    /\ portfolio.rebalance_history = Before.rebalance_history

----------------------------------------------------------------------------
(* SpecPeriods: run_backtest with rebalance periods in days, weeks and months,
   over business days 1 to 31 calendar days after the first *)

PeriodCalendar ==
    << [year |-> 2020, month |-> 2, ord |-> 0],     \* 2020-02-03
       [year |-> 2020, month |-> 2, ord |-> 1],     \* 2020-02-04
       [year |-> 2020, month |-> 2, ord |-> 2],     \* 2020-02-05
       [year |-> 2020, month |-> 2, ord |-> 4],     \* 2020-02-07
       [year |-> 2020, month |-> 2, ord |-> 7],     \* 2020-02-10
       [year |-> 2020, month |-> 2, ord |-> 8],     \* 2020-02-11
       [year |-> 2020, month |-> 2, ord |-> 14],    \* 2020-02-17
       [year |-> 2020, month |-> 2, ord |-> 15],    \* 2020-02-18
       [year |-> 2020, month |-> 3, ord |-> 29],    \* 2020-03-03
       [year |-> 2020, month |-> 3, ord |-> 30],    \* 2020-03-04
       [year |-> 2020, month |-> 3, ord |-> 31] >>  \* 2020-03-05

\* a row of the price table: B at 100, A at 100 or missing
PeriodPriceRows == { [t \in Tickers |-> IF t = "A" THEN a ELSE 100 * Dollar] :
                        a \in {NaN, 100 * Dollar} }

InitPeriods ==
    /\ \E period \in {1, 2}, unit \in {"days", "weeks", "months"}, n \in {1, 2} :
          strategy = [ n_tickers |-> n,
                       rebalance_period |-> period,
                       rebalance_period_unit |-> unit,
                       stop_loss_pct |-> 0,
                       smart_stop_loss |-> FALSE,
                       capital_gains_tax_enabled |-> FALSE,
                       var_95 |-> <<>> ]
    /\ portfolio = Portfolio(InitialCapital, <<FALSE, "percentage", 0>>, <<FALSE, 0>>,
                             FALSE, "equal")
    /\ day = 0
    /\ pc = "loop"
    /\ date = NoDate
    /\ count = 0
    /\ current_prices = None
    /\ prev_prices = None
    /\ last_rebalance_date = None
    /\ tax_calls = <<>>
    /\ call = NoCall

\* for date, prices in close_prices.iterrows()
NextPeriodDay ==
    /\ pc = "loop"
    /\ count < MaxPeriodDays
    /\ day < Len(PeriodCalendar)
    /\ day' = day + 1
    /\ date' = PeriodCalendar[day + 1]
    /\ current_prices' \in PeriodPriceRows
    /\ count' = count + 1
    /\ pc' = "stop_loss"
    /\ call' = Step("next_day")
    /\ UNCHANGED <<portfolio, strategy, prev_prices, last_rebalance_date, tax_calls>>

\* the loop is over: run_backtest returns the portfolio
PeriodsCompleted ==
    /\ pc = "loop"
    /\ (count >= MaxPeriodDays \/ day >= Len(PeriodCalendar))
    /\ pc' = "done"
    /\ call' = Step("completed")
    /\ UNCHANGED <<portfolio, strategy, day, date, count, current_prices, prev_prices,
                   last_rebalance_date, tax_calls>>

NextPeriods ==
    \/ NextPeriodDay
    \/ StopLossStep
    \/ TaxStep
    \/ RebalanceStep
    \/ InterestStep
    \/ RecordStep
    \/ PeriodsCompleted

SpecPeriods == InitPeriods /\ [][NextPeriods]_vars

\* the calendar days of the rebalance period of the run
PeriodDays ==
    CASE strategy.rebalance_period_unit = "days" -> strategy.rebalance_period
      [] strategy.rebalance_period_unit = "weeks" -> strategy.rebalance_period * 7
      [] strategy.rebalance_period_unit = "months" -> strategy.rebalance_period * 30

\* the rebalance events logged so far
Rebalances(self) == SelectSeq(self.rebalance_history, LAMBDA e : e.type = "rebalance")

\* C24: the rebalance step of the first day rebalances; the rebalance step of a
\* later day rebalances exactly when the calendar days since the last
\* rebalance are at least the period in days; two consecutive rebalance events
\* of the log are at least that many calendar days apart.
C24_RebalanceWhenPeriodElapsed ==
    [][ pc = "rebalance" =>
          /\ last_rebalance_date = None <=> count = 1
          /\ call'.op = "rebalance" <=>
                \/ count = 1
                \/ date.ord - last_rebalance_date[1].ord >= PeriodDays
          /\ call'.op = "rebalance" <=>
                /\ Len(Rebalances(portfolio')) = Len(Rebalances(portfolio)) + 1
                /\ Rebalances(portfolio')[Len(Rebalances(portfolio'))].date = date
          /\ \A i \in 2..Len(Rebalances(portfolio')) :
                Rebalances(portfolio')[i].date.ord - Rebalances(portfolio')[i - 1].date.ord
                    >= PeriodDays
      ]_vars

\* with a period of a week, a rebalance exactly 7 calendar days after the last
C24_RebalancedAfterAWeek ==
    /\ call.op = "rebalance"
    /\ strategy.rebalance_period_unit = "weeks"
    /\ strategy.rebalance_period = 1
    /\ Len(Rebalances(portfolio)) >= 2
    /\ LastEvent.date.ord - Rebalances(portfolio)[Len(Rebalances(portfolio)) - 1].date.ord = 7

----------------------------------------------------------------------------
(* Claims about rebalance, on the steps of the run *)

Rebalanced == call.op = "rebalance"

\* the tickers select_tickers returned to the step just taken
TargetSet == {call.ret[1][i][1] : i \in 1..Len(call.ret[1])}

Held(self) == DOMAIN self.holdings

\* the portfolio between the sales and the purchases of the rebalance just done
AfterSells ==
    RebalanceSells(Before, Before.holdings_keys, 1, TargetSet, current_prices, <<>>).self

\* the whole shares the rebalance just done computed for the target t
ComputedQuantity(t) ==
    LET target_tickers == [i \in 1..Len(call.ret[1]) |-> call.ret[1][i][1]]
        tickers_to_buy == SelectSeq(target_tickers, LAMBDA x : x \notin Held(AfterSells))
    IN  BuyQuantity(Before,
                    Allocations(AfterSells, tickers_to_buy, VarMap(strategy, call.ret[1]))[t],
                    current_prices[t])

\* C25: after a rebalance on a day on which every held ticker has a price,
\* every held ticker is a target, and every target that was not held, has a
\* positive price and a computed quantity >= 1 is held.
C25_HoldingsFollowTargets ==
    (Rebalanced /\ \A t \in Held(Before) : ~IsNa(current_prices[t])) =>
        /\ Held(portfolio) \subseteq TargetSet
        /\ \A t \in TargetSet \ Held(Before) :
              (~IsNa(current_prices[t]) /\ current_prices[t] > 0 /\ ComputedQuantity(t) >= 1)
                  => t \in Held(portfolio)

\* a rebalance sold a ticker that is no target and bought a target
C25_SoldOneBoughtAnother ==
    /\ Rebalanced
    /\ \A t \in Held(Before) : ~IsNa(current_prices[t])
    /\ Held(Before) \ TargetSet # {}
    /\ \E t \in TargetSet \ Held(Before) : ComputedQuantity(t) >= 1 /\ t \in Held(portfolio)

\* C26: a rebalance leaves the quantity, the cost basis and the entry price of
\* every position that is held and is a target as they were.
C26_HeldTargetsUntouched ==
    Rebalanced =>
        \A t \in Held(Before) \cap TargetSet : Position(portfolio, t) = Position(Before, t)

\* a rebalance kept a target held at another price than today's and bought the
\* other target
C26_KeptOneBoughtAnother ==
    /\ Rebalanced
    /\ \E t \in Held(Before) \cap TargetSet :
          /\ ~IsNa(current_prices[t])
          /\ Before.entry_prices[t] # current_prices[t]
          /\ Position(portfolio, t) = Position(Before, t)
    /\ Held(portfolio) \ Held(Before) # {}

----------------------------------------------------------------------------
(* Claims about the stop-loss block, on the steps of the run *)

\* the step just taken ran the stop-loss block in smart mode
SmartStopped == call.op = "stop_loss" /\ call.ret # None /\ strategy.smart_stop_loss

\* the tickers select_tickers returned to the stop-loss block just run
TopSet == {call.ret[1][i][1] : i \in 1..Len(call.ret[1])}

\* the sales the step just taken logged
LoggedSales == IF Logged THEN LastEvent.sold ELSE <<>>

\* C27: in smart mode a flagged ticker among today's top tickers is not sold
\* and its position stays as it was; a flagged ticker outside the top tickers
\* with a price today is sold at today's price.
C27_TopKeptOthersSold ==
    SmartStopped =>
        \A t \in Flagged :
            IF t \in TopSet
            THEN /\ Position(portfolio, t) = Position(Before, t)
                 /\ t \notin DOMAIN LoggedSales
            ELSE ~IsNa(current_prices[t]) =>
                    /\ t \notin Held(portfolio)
                    /\ t \in DOMAIN LoggedSales
                    /\ LoggedSales[t].revenue = Before.holdings[t] * current_prices[t]

\* in smart mode a flagged ticker outside the top tickers was sold
C27_FlaggedOutsideTopSold ==
    /\ SmartStopped
    /\ \E t \in Flagged \ TopSet : t \in DOMAIN LoggedSales /\ t \notin Held(portfolio)

----------------------------------------------------------------------------
(* SpecSmart: the stop-loss block of run_backtest on a table of three tickers,
   for positions opened at 100 the day before yesterday *)

SmartColumns == <<"A", "B", "C">>

SmartTickers == {"A", "B", "C"}

\* the lists of one or two tickers held, in the order of their purchase
SmartHeld == {h \in UNION {[1..k -> SmartTickers] : k \in 1..2} :
                 \A i, j \in 1..Len(h) : i # j => h[i] # h[j]}

\* yesterday's closes
SmartPrevRows == [SmartTickers -> {80 * Dollar, 100 * Dollar}]

\* today's closes
SmartRows == [SmartTickers -> {NaN, 80 * Dollar, 110 * Dollar}]

\* the positions of the list bought at 100 each for a third of the capital
RECURSIVE Opened(_, _, _)
Opened(self, tickers, i) ==
    IF i > Len(tickers) THEN self
    ELSE Opened(buy_ticker(self, tickers[i], InitialCapital \div 3, 100 * Dollar, 0, None).self,
                tickers, i + 1)

\* the lists a strategy can return: n of the available tickers in any rank order
RankedLists(n, available_tickers) ==
    LET k == Min(n, Len(available_tickers))
    IN  {[i \in 1..k |-> <<available_tickers[s[i]], 0>>] :
            s \in Samples(k, Len(available_tickers))}

InitSmart ==
    /\ \E held \in SmartHeld, fee \in RunFeeConfigs, smart \in BOOLEAN, n \in {1, 2} :
          /\ strategy = [ n_tickers |-> n,
                          rebalance_period |-> 1,
                          rebalance_period_unit |-> "months",
                          stop_loss_pct |-> 10,
                          smart_stop_loss |-> smart,
                          capital_gains_tax_enabled |-> FALSE,
                          var_95 |-> <<>> ]
          /\ portfolio = Opened(Portfolio(InitialCapital, fee, <<FALSE, 0>>, FALSE, "equal"),
                                held, 1)
    /\ day = 1
    /\ pc = "opened"
    /\ date = Calendar[1]
    /\ count = 1
    /\ current_prices = [t \in SmartTickers |-> 100 * Dollar]
    /\ prev_prices = None
    /\ last_rebalance_date = Some(Calendar[1])
    /\ tax_calls = <<>>
    /\ call = NoCall

\* the second day: no stop-loss candidates at the entry prices, the closes recorded
SmartDay ==
    /\ pc = "opened"
    /\ day' = day + 1
    /\ date' = Calendar[day + 1]
    /\ count' = count + 1
    /\ current_prices' \in SmartPrevRows
    /\ prev_prices' = Some(current_prices')
    /\ pc' = "stop_loss"
    /\ call' = Step("next_day")
    /\ UNCHANGED <<portfolio, strategy, last_rebalance_date, tax_calls>>

\* the stop-loss block of the third day
SmartStopLoss ==
    /\ pc = "stop_loss"
    /\ day' = day + 1
    /\ date' = Calendar[day + 1]
    /\ count' = count + 1
    /\ \E prices \in SmartRows :
          /\ current_prices' = prices
          /\ \E top \in IF strategy.smart_stop_loss
                           /\ get_stop_loss_candidates(portfolio, prev_prices[1],
                                                       strategy.stop_loss_pct) # <<>>
                        THEN RankedLists(strategy.n_tickers,
                                         SelectSeq(SmartColumns, LAMBDA t : ~IsNa(prices[t])))
                        ELSE {<<>>} :
                /\ portfolio' = StopLossBlock(portfolio, strategy, date', prices,
                                              prev_prices[1], top)
                /\ call' = [Step("stop_loss") EXCEPT !.ret = Some(top)]
    /\ pc' = "tax"
    /\ UNCHANGED <<strategy, prev_prices, last_rebalance_date, tax_calls>>

NextSmart == SmartDay \/ SmartStopLoss

SpecSmart == InitSmart /\ [][NextSmart]_vars

\* the stop-loss block of the step just taken was entered
Stopped == call.op = "stop_loss" /\ call.ret # None

\* the candidates the stop-loss block just run sold, in the order of their sale
Sales ==
    SelectSeq(get_stop_loss_candidates(Before, prev_prices[1], strategy.stop_loss_pct),
              LAMBDA t : /\ strategy.smart_stop_loss => t \notin TopSet
                         /\ ~IsNa(current_prices[t]))

\* <<ticker, quantity, price>> of the purchases the step just taken logged
LoggedBuys ==
    IF Logged
    THEN [i \in 1..Len(LastEvent.bought) |->
             <<LastEvent.bought[i].ticker, LastEvent.bought[i].quantity,
               LastEvent.bought[i].price>>]
    ELSE <<>>

\* the purchases that follow the sales from the i-th on, `held` being held: for
\* each sale the first top ticker that is not held and is not the ticker sold,
\* in whole shares of the revenue of the sale
RECURSIVE Replacements(_, _, _)
Replacements(sales, i, held) ==
    IF i > Len(sales) THEN <<>>
    ELSE
        LET s == sales[i]
            top == call.ret[1]
            ok == {k \in 1..Len(top) : top[k][1] \notin held \ {s} /\ top[k][1] # s}
            r == top[CHOOSE k \in ok : \A j \in ok : k <= j][1]
            quantity == BuyQuantity(Before, Before.holdings[s] * current_prices[s],
                                    current_prices[r])
        IN  IF ok # {} /\ current_prices[r] > 0 /\ quantity >= 1
            THEN <<<<r, quantity, current_prices[r]>>>>
                    \o Replacements(sales, i + 1, (held \ {s}) \cup {r})
            ELSE Replacements(sales, i + 1, held \ {s})

\* C28: in smart mode each stop-loss sale is followed by at most one purchase,
\* of the first top ticker that is not held and is not the ticker sold, for
\* the revenue of the sale; in plain mode no purchase follows a sale.
C28_OneReplacementPerSale ==
    Stopped =>
        /\ Len(LoggedBuys) <= Len(Sales)
        /\ Cardinality(DOMAIN LoggedSales) = Len(Sales)
        /\ strategy.smart_stop_loss => LoggedBuys = Replacements(Sales, 1, Held(Before))
        /\ ~strategy.smart_stop_loss =>
              /\ LoggedBuys = <<>>
              /\ Held(portfolio) \subseteq Held(Before)

\* a sale in smart mode with the first ranked ticker held: the second ranked
\* ticker is bought
C28_SecondRankedBoughtOnce ==
    /\ Stopped
    /\ strategy.smart_stop_loss
    /\ Len(Sales) = 1
    /\ Len(call.ret[1]) = 2
    /\ call.ret[1][1][1] \in Held(Before)
    /\ Len(LoggedBuys) = 1
    /\ LoggedBuys[1][1] = call.ret[1][2][1]

StopTypes == {"stop_loss", "stop_loss_smart"}

\* the positions in the log of the stop-loss events
StopEvents(self) ==
    {i \in 1..Len(self.rebalance_history) : self.rebalance_history[i].type \in StopTypes}

\* the tickers the step just taken opened a position in
Opening == Held(portfolio) \ Held(Before)

\* C29: no two stop-loss events of the log have the same date; the stop-loss
\* step appends one event, holding all its sales and purchases, when it sold or
\* bought something, and nothing otherwise; no other step appends such an event.
C29_OneStopEventPerDay ==
    /\ \A i, j \in StopEvents(portfolio) :
          i # j => portfolio.rebalance_history[i].date # portfolio.rebalance_history[j].date
    /\ call.op = "stop_loss" =>
          IF Closed # {} \/ Opening # {}
          THEN /\ Len(portfolio.rebalance_history) = Len(Before.rebalance_history) + 1
               /\ LastEvent.type =
                     IF strategy.smart_stop_loss THEN "stop_loss_smart" ELSE "stop_loss"
               /\ LastEvent.date = date
               /\ DOMAIN LastEvent.sold = Closed
               /\ {LastEvent.bought[i].ticker : i \in 1..Len(LastEvent.bought)} = Opening
               /\ Len(LastEvent.bought) = Cardinality(Opening)
          ELSE portfolio.rebalance_history = Before.rebalance_history
    /\ (call.before # None /\ call.op # "stop_loss") =>
          StopEvents(portfolio) = StopEvents(Before)

\* a stop-loss step sold two tickers and logged one event
C29_TwoSalesOneEvent ==
    /\ call.op = "stop_loss"
    /\ Cardinality(Closed) = 2
    /\ Len(portfolio.rebalance_history) = Len(Before.rebalance_history) + 1
    /\ DOMAIN LastEvent.sold = Closed

----------------------------------------------------------------------------
(* Claims about apply_daily_interest, on the steps of the run *)

Charged == call.op = "apply_daily_interest"

\* the interest the step just taken took from cash
Interest == Before.cash - portfolio.cash

\* C30: the interest step takes |cash| * 0.03 / 365.25 (in whole units) from
\* cash exactly when margin is enabled and cash is negative, and nothing
\* otherwise; holdings, cost basis, entry prices and annual_realized_pnl stay as
\* they were.
C30_InterestOnMarginDebtOnly ==
    Charged =>
        /\ IF Before.margin_enabled /\ Before.cash < 0
           THEN /\ Interest * 36525 <= Abs(Before.cash) * 3
                /\ Abs(Before.cash) * 3 < (Interest + 1) * 36525
           ELSE Interest = 0
        /\ portfolio.holdings = Before.holdings
        /\ portfolio.cost_basis = Before.cost_basis
        /\ portfolio.entry_prices = Before.entry_prices
        /\ portfolio.annual_realized_pnl = Before.annual_realized_pnl

\* interest was charged on a margin debt of a portfolio with a position
C30_InterestCharged ==
    /\ Charged
    /\ Before.margin_enabled
    /\ Before.cash < 0
    /\ Interest > 0
    /\ Held(portfolio) # {}

----------------------------------------------------------------------------
(* Claims about the history and the event log, on the steps of the run *)

IsPrefix(s, t) == Len(s) <= Len(t) /\ SubSeq(t, 1, Len(s)) = s

\* C31: after k days the history holds k snapshots with strictly increasing
\* dates, and no step removes or rewrites a snapshot or an event logged before.
C31_HistoryAppendOnly ==
    [][ /\ IsPrefix(portfolio.history, portfolio'.history)
        /\ IsPrefix(portfolio.rebalance_history, portfolio'.rebalance_history)
        /\ pc' = "loop" =>
              /\ Len(portfolio'.history) = count'
              /\ \A i \in 2..Len(portfolio'.history) :
                    portfolio'.history[i].date.ord > portfolio'.history[i - 1].date.ord
      ]_vars

\* three days were processed, with events logged on more than one of them
C31_ThreeSnapshots ==
    /\ pc = "loop"
    /\ count = 3
    /\ Len(portfolio.history) = 3
    /\ Len(portfolio.rebalance_history) >= 2

----------------------------------------------------------------------------
(* SpecBlocks: Portfolio.rebalance and the stop-loss block called on small
   positions opened at 100, with any list of targets and any prices *)

\* the lists of tickers held, in the order of their purchase
BlocksHeld == {h \in UNION {[1..k -> Tickers] : k \in 0..2} :
                  \A i, j \in 1..Len(h) : i # j => h[i] # h[j]}

\* today's closes
BlocksRows == [Tickers -> {NaN, 80 * Dollar, 110 * Dollar}]

\* yesterday's closes
BlocksPrevRows == [Tickers -> {80 * Dollar, 100 * Dollar}]

\* the positions of the list bought at 100 each for 500
RECURSIVE OpenedSmall(_, _, _)
OpenedSmall(self, tickers, i) ==
    IF i > Len(tickers) THEN self
    ELSE OpenedSmall(buy_ticker(self, tickers[i], 500 * Dollar, 100 * Dollar, 0, None).self,
                     tickers, i + 1)

InitBlocks ==
    /\ \E held \in BlocksHeld, fee \in RunFeeConfigs, margin \in BOOLEAN,
          smart \in BOOLEAN, n \in {1, 2} :
          /\ strategy = [ n_tickers |-> n,
                          rebalance_period |-> 1,
                          rebalance_period_unit |-> "days",
                          stop_loss_pct |-> 10,
                          smart_stop_loss |-> smart,
                          capital_gains_tax_enabled |-> FALSE,
                          var_95 |-> <<>> ]
          /\ portfolio = OpenedSmall(Portfolio(InitialCapital, fee, <<FALSE, 0>>, margin,
                                               "equal"), held, 1)
    /\ day = 1
    /\ pc = "opened"
    /\ date = Calendar[1]
    /\ count = 1
    /\ current_prices = [t \in Tickers |-> 100 * Dollar]
    /\ prev_prices = None
    /\ last_rebalance_date = Some(Calendar[1])
    /\ tax_calls = <<>>
    /\ call = NoCall

\* Portfolio.rebalance with a list of targets, priced today or not
RebalanceCall ==
    /\ pc = "opened"
    /\ \E prices \in BlocksRows, targets \in RankedLists(strategy.n_tickers, Columns) :
          /\ current_prices' = prices
          /\ portfolio' = rebalance(portfolio, targets, prices, Calendar[day + 1], <<>>)
          /\ call' = [Step("rebalance") EXCEPT !.ret = Some(targets)]
    /\ day' = day + 1
    /\ date' = Calendar[day + 1]
    /\ count' = count + 1
    /\ last_rebalance_date' = Some(Calendar[day + 1])
    /\ pc' = "called"
    /\ UNCHANGED <<strategy, prev_prices, tax_calls>>

\* the stop-loss block after a day of closes
StopLossCall ==
    /\ pc = "opened"
    /\ \E prev \in BlocksPrevRows, prices \in BlocksRows :
          /\ prev_prices' = Some(prev)
          /\ current_prices' = prices
          /\ \E top \in IF strategy.smart_stop_loss
                        THEN RankedLists(strategy.n_tickers, AvailableTickers(prices))
                        ELSE {<<>>} :
                /\ portfolio' = StopLossBlock(portfolio, strategy, Calendar[day + 1], prices,
                                              prev, top)
                /\ call' = [Step("stop_loss") EXCEPT !.ret = Some(top)]
    /\ day' = day + 1
    /\ date' = Calendar[day + 1]
    /\ count' = count + 1
    /\ pc' = "called"
    /\ UNCHANGED <<strategy, last_rebalance_date, tax_calls>>

NextBlocks == RebalanceCall \/ StopLossCall

SpecBlocks == InitBlocks /\ [][NextBlocks]_vars

\* the tickers without a price today
Unpriced == {t \in Tickers : IsNa(current_prices[t])}

\* C32: a held ticker without a price today is neither sold by the stop-loss
\* step nor by a rebalance, and keeps its quantity, cost basis and entry price;
\* a ticker without a price, target or not, is not bought; the step completes
\* (a rebalance logs its event).
C32_UnpricedTickersSkipped ==
    (call.op \in {"stop_loss", "rebalance"}) =>
        /\ \A t \in Unpriced :
              /\ t \in Held(Before) <=> t \in Held(portfolio)
              /\ Position(portfolio, t) = Position(Before, t)
              /\ Logged => t \notin DOMAIN LastEvent.sold
              /\ Logged => \A i \in 1..Len(LastEvent.bought) : LastEvent.bought[i].ticker # t
        /\ pc = "called"
        /\ call.op = "rebalance" => (Logged /\ LastEvent.type = "rebalance")

\* a rebalance on a day on which a held ticker that is no target and a target
\* that is not held both have no price
C32_UnpricedHeldAndTarget ==
    /\ call.op = "rebalance"
    /\ \E t \in Unpriced \cap Held(Before) : t \notin TargetSet
    /\ \E t \in Unpriced \cap TargetSet : t \notin Held(Before)

----------------------------------------------------------------------------
(* Claims about the allocations of a rebalance, on the steps of the run *)

\* the targets the rebalance just done had to buy, in rank order
ToBuy ==
    SelectSeq([i \in 1..Len(call.ret[1]) |-> call.ret[1][i][1]],
              LAMBDA t : t \notin Held(AfterSells))

\* the allocations of the rebalance just done
Allocated == Allocations(AfterSells, ToBuy, VarMap(strategy, call.ret[1]))

\* 1 / |VaR| of a ticker, VaR in units of 0.0001, 5 % standing for a missing
\* or near-zero VaR; every weight is 1 when no target has a VaR or the sizing
\* is equal
Weight(t) ==
    LET var_map == VarMap(strategy, call.ret[1])
    IN  IF Before.sizing_method # "var" \/ DOMAIN var_map = {} THEN 1
        ELSE IF t \in DOMAIN var_map /\ Abs(var_map[t]) > 1
        THEN 10000 \div Abs(var_map[t])
        ELSE 10000 \div 500

\* C33: the allocations of a rebalance are the shares weight / total weight of
\* the cash after its sales (rounded down to the unit of account), equal under
\* equal sizing and proportional to 1 / |VaR| under VaR sizing, and add up to
\* that cash.
C33_AllocationsShareCash ==
    (Rebalanced /\ ToBuy # <<>>) =>
        LET cash == AfterSells.cash
            total == SumOver(ToBuy, 1, [t \in Tickers |-> Weight(t)])
            sum == SumOver(ToBuy, 1, Allocated)
        IN  /\ \A i \in 1..Len(ToBuy) :
                  /\ Allocated[ToBuy[i]] * total <= cash * Weight(ToBuy[i])
                  /\ cash * Weight(ToBuy[i]) < (Allocated[ToBuy[i]] + 1) * total
            /\ Before.sizing_method = "equal" =>
                  \A i, j \in 1..Len(ToBuy) : Allocated[ToBuy[i]] = Allocated[ToBuy[j]]
            /\ sum <= cash
            /\ cash - sum < Len(ToBuy)

\* a rebalance under VaR sizing bought two tickers, one with a VaR of 2 % and
\* one without a VaR, the first with the larger allocation
C33_TwoWeightedAllocations ==
    /\ Rebalanced
    /\ Before.sizing_method = "var"
    /\ Len(ToBuy) = 2
    /\ Weight("A") = 50 /\ Weight("B") = 20
    /\ Allocated["A"] > Allocated["B"]
    /\ Held(portfolio) = {"A", "B"}

----------------------------------------------------------------------------
(* Claims about MomentumStrategy.select_tickers, on the calls of SpecMomentum *)

\* the valid prices of a ticker up to the day of the call
Observations(t) == TickerPrices(strategy.close_prices, t, day)

\* the price of a ticker lookback_days valid observations before its last one
StartPrice(t) == Observations(t)[Len(Observations(t)) - strategy.lookback_days]

EndPrice(t) == Observations(t)[Len(Observations(t))]

\* C34: every ticker Momentum select returns has at least lookback_days + 1
\* valid observations up to the date, and with the negative-momentum filter
\* its last price is not below its price lookback_days observations before.
C34_EnoughHistoryNoLosers ==
    (pc = "selected") =>
        \A i \in 1..Len(Selected) :
            /\ Len(Observations(Selected[i][1])) >= strategy.lookback_days + 1
            /\ strategy.filter_negative_momentum =>
                  /\ EndPrice(Selected[i][1]) >= StartPrice(Selected[i][1])
                  /\ Selected[i][2] >= 0

\* with the filter on and room for two tickers, a ticker that rose is returned
\* alone: the other ticker fell
C34_LoserLeftOut ==
    /\ pc = "selected"
    /\ strategy.filter_negative_momentum
    /\ strategy.n_tickers = 2
    /\ Len(Selected) = 1
    /\ \E t \in Tickers \ {Selected[1][1]} :
          /\ Len(Observations(t)) >= strategy.lookback_days + 1
          /\ EndPrice(t) < StartPrice(t)

\* the list get_detailed_momentum returned to the call
Ranked == get_detailed_momentum(strategy, AvailableTickers(current_prices), day)

\* the place of a ticker in the list of available tickers
Place(t) == CHOOSE i \in 1..Len(Columns) : Columns[i] = t

\* C40: the list ranked by (score, return) descending is in the order of the
\* returns alone, descending, tickers with equal returns in their given order.
C40_RankedByReturn ==
    (pc = "selected") =>
        /\ \A i, j \in 1..Len(Ranked) :
              i < j =>
                 \/ Ranked[i].momentum > Ranked[j].momentum
                 \/ /\ Ranked[i].momentum = Ranked[j].momentum
                    /\ Place(Ranked[i].ticker) < Place(Ranked[j].ticker)
        /\ \A i \in 1..Len(Selected) : Selected[i][1] = Ranked[i].ticker

\* two tickers with the score 0 and different negative returns, the second of
\* the table ranked first
C40_LosersRankedByReturn ==
    /\ pc = "selected"
    /\ Len(Ranked) = 2
    /\ Ranked[1].score = 0 /\ Ranked[2].score = 0
    /\ Ranked[1].momentum > Ranked[2].momentum
    /\ Ranked[1].ticker = "B"
    /\ Len(Selected) = 2

----------------------------------------------------------------------------
(* Claims about the purchases of the loop *)

\* the purchases the step just taken logged
Purchases == IF Logged THEN LastEvent.bought ELSE <<>>

\* C35: neither a rebalance nor the stop-loss block buys a ticker that is held:
\* no ticker bought was held before the step, no ticker is bought twice, and
\* every position held before and after the step is as it was.
C35_HeldNeverBought ==
    (call.op \in {"stop_loss", "rebalance"}) =>
        /\ \A i \in 1..Len(Purchases) : Purchases[i].ticker \notin Held(Before)
        /\ \A i, j \in 1..Len(Purchases) :
              i # j => Purchases[i].ticker # Purchases[j].ticker
        /\ \A t \in Held(Before) \cap Held(portfolio) :
              Position(portfolio, t) = Position(Before, t)

\* a smart stop-loss sale without a purchase: the only top ticker is held, at
\* another price than today's
C35_HeldTopTickerNotBought ==
    /\ call.op = "stop_loss"
    /\ strategy.smart_stop_loss
    /\ Closed # {}
    /\ Purchases = <<>>
    /\ \E t \in TopSet \cap Held(Before) :
          /\ ~IsNa(current_prices[t])
          /\ current_prices[t] # Before.entry_prices[t]

\* a portfolio without margin, transaction fees and tax
Plain(self) ==
    /\ ~self.margin_enabled
    /\ ~self.transaction_fee_enabled
    /\ ~self.capital_gains_tax_enabled

\* what the purchases the step just taken logged have cost
Spent ==
    SumOver([i \in 1..Len(Purchases) |-> i], 1,
            [i \in 1..Len(Purchases) |-> Purchases[i].quantity * Purchases[i].price])

\* C36: without margin, transaction fees and tax, cash is >= 0 after every
\* operation of a run; every purchase of a rebalance costs at most its
\* allocation, the allocations add up to at most the cash after the sales, and
\* the purchases of a stop-loss block cost at most what its sales brought in.
C36_PlainCashNeverNegative ==
    Plain(portfolio) =>
        /\ portfolio.cash >= 0
        /\ Rebalanced =>
              /\ \A i \in 1..Len(Purchases) :
                    Purchases[i].quantity * Purchases[i].price
                        <= Allocated[Purchases[i].ticker]
              /\ SumOver(ToBuy, 1, Allocated) <= AfterSells.cash
              /\ portfolio.cash = AfterSells.cash - Spent
        /\ call.op = "stop_loss" =>
              /\ portfolio.cash >= Before.cash
              /\ Spent <= SumOver(Sales, 1, [t \in DOMAIN current_prices |->
                                     IF t \in Held(Before) /\ ~IsNa(current_prices[t])
                                     THEN Before.holdings[t] * current_prices[t] ELSE 0])

\* a plain portfolio bought two tickers in one rebalance, for less than their
\* allocations
C36_TwoPurchases ==
    /\ Plain(portfolio)
    /\ Rebalanced
    /\ Len(Purchases) = 2
    /\ portfolio.cash > 0

----------------------------------------------------------------------------
(* SpecTrades: buy_ticker, sell_ticker and rebalance calls on one portfolio *)

\* at most this many rebalance calls in a sequence
MaxRebalances == 1

\* the closes of the day of a rebalance call
TradeRows == { [t \in Tickers |-> IF t = "A" THEN a ELSE b] :
                  a \in {100 * Dollar, 110 * Dollar}, b \in {110 * Dollar} }

\* portfolio.rebalance(target_scores, prices, date), one or two targets
RebalanceTrade ==
    /\ pc = "calls"
    /\ count < MaxCalls
    /\ Len(portfolio.rebalance_history) < MaxRebalances
    /\ \E prices \in TradeRows, n \in {1, 2} :
          \E targets \in RankedLists(n, Columns) :
             /\ current_prices' = prices
             /\ portfolio' = rebalance(portfolio, targets, prices, NoDate, <<>>)
             /\ call' = [Step("rebalance") EXCEPT !.ret = Some(targets)]
    /\ count' = count + 1
    /\ UNCHANGED <<strategy, pc, day, date, prev_prices, last_rebalance_date, tax_calls>>

NextTrades == BuyCall \/ SellCall \/ RebalanceTrade

SpecTrades == InitCalls /\ [][NextTrades]_vars

----------------------------------------------------------------------------
(* Claims about the value a trade keeps *)

\* the prices the call just made traded at: the closes of a rebalance, the
\* price of a buy or a sell for its ticker (and 100 for the other tickers)
TradePrices ==
    IF Rebalanced THEN current_prices
    ELSE [t \in Tickers |-> IF t = call.ticker THEN call.price ELSE 100 * Dollar]

\* the fees the call just made has charged
FeesCharged ==
    IF Rebalanced
    THEN SumOver(Columns, 1, [t \in Tickers |->
                    IF t \in DOMAIN LastEvent.sold THEN LastEvent.sold[t].fee ELSE 0])
         + SumOver([i \in 1..Len(LastEvent.bought) |-> i], 1,
                   [i \in 1..Len(LastEvent.bought) |-> LastEvent.bought[i].fee])
    ELSE IF call.ret = None THEN 0 ELSE call.ret[1].fee

\* the call just made was a sell, a rebalance, or a buy of a ticker that was
\* not held, the only buys rebalance and the stop-loss block make
Traded ==
    \/ Sold
    \/ Rebalanced
    \/ Bought /\ call.ticker \notin Held(Before)

----------------------------------------------------------------------------
(* SpecCents: one share traded for gains and losses of a few cents, settled
   every January *)

\* a loss of exactly 2 cents, a loss just above 2 cents, a gain of 10 cents
CentsSellPrices == { Dollar - 2 * Cent, Dollar - 2 * Cent - 1, Dollar + 10 * Cent }

\* one share bought at 1 dollar
CentsBuy ==
    /\ pc = "tax_years"
    /\ count < MaxTaxCalls
    /\ "A" \notin DOMAIN portfolio.holdings
    /\ LET r == buy_ticker(portfolio, "A", Dollar, Dollar, 0, None)
       IN  /\ portfolio' = r.self
           /\ call' = [op |-> "buy", ticker |-> "A", amount |-> Dollar,
                       price |-> Dollar, ret |-> r.ret, before |-> Some(portfolio)]
    /\ count' = count + 1
    /\ UNCHANGED <<strategy, pc, day, date, current_prices, prev_prices,
                   last_rebalance_date, tax_calls>>

CentsSell ==
    /\ pc = "tax_years"
    /\ count < MaxTaxCalls
    /\ "A" \in DOMAIN portfolio.holdings
    /\ \E price \in CentsSellPrices :
          LET r == sell_ticker(portfolio, "A", price)
          IN  /\ portfolio' = r.self
              /\ call' = [op |-> "sell", ticker |-> "A", amount |-> 0,
                          price |-> price, ret |-> r.ret, before |-> Some(portfolio)]
    /\ count' = count + 1
    /\ UNCHANGED <<strategy, pc, day, date, current_prices, prev_prices,
                   last_rebalance_date, tax_calls>>

NextCents == CentsBuy \/ CentsSell \/ TaxSettle

SpecCents == InitTax /\ [][NextCents]_vars

\* the entries of the year y in a carryforward
EntriesOf(carry, y) == {i \in 1..Len(carry) : carry[i][1] = y}

\* C38: a settlement deducts at most half of a carryforward entry, so an entry
\* above 2 cents that is younger than 5 years is still in the carryforward
\* after the settlement, with at least half of its loss.
C38_HalfOfEntryStays ==
    Settled =>
        /\ (Before.annual_realized_pnl > 0) =>
              \A n \in 1..Len(LastEvent.loss_deductions) :
                  2 * LastEvent.loss_deductions[n].deduction
                      <= LastEvent.loss_deductions[n].original_loss
        /\ \A i \in 1..Len(Before.loss_carryforward) :
              LET e == Before.loss_carryforward[i]
              IN  (e[2] > 2 * Cent /\ date.year - e[1] < CarryYears) =>
                     /\ Cardinality(EntriesOf(portfolio.loss_carryforward, e[1])) = 1
                     /\ \A j \in EntriesOf(portfolio.loss_carryforward, e[1]) :
                           /\ 2 * portfolio.loss_carryforward[j][2] >= e[2]
                           /\ portfolio.loss_carryforward[j][2] <= e[2]

\* a profit is settled against a loss of exactly 2 cents and a loss just above
\* 2 cents: half of each is deducted, the first entry is dropped and the
\* second stays
C38_TwoCentsDroppedMoreKept ==
    /\ Settled
    /\ Before.annual_realized_pnl > 0
    /\ Len(Before.loss_carryforward) = 2
    /\ Before.loss_carryforward[1][2] = 2 * Cent
    /\ Before.loss_carryforward[2][2] = 2 * Cent + 1
    /\ Len(LastEvent.loss_deductions) = 2
    /\ LastEvent.loss_deductions[1].deduction = Cent
    /\ LastEvent.loss_deductions[2].deduction = Cent
    /\ Len(portfolio.loss_carryforward) = 1
    /\ portfolio.loss_carryforward[1] = <<Before.loss_carryforward[2][1], Cent + 1>>

----------------------------------------------------------------------------
(* SpecWalk: the window loop of run_walk_forward_optimization.  The request is
   kept in strategy, current_start in date and window_index in count; call
   keeps the window the last iteration appended to all_window_results, its
   step and the current_start it began with. *)

MaxWindows == 14

DaysInMonth(y, m) ==
    IF m = 2 THEN (IF y % 4 = 0 THEN 29 ELSE 28)
    ELSE IF m \in {4, 6, 9, 11} THEN 30 ELSE 31

\* d + relativedelta(months=k): the day is clamped to the last day of the month
AddMonths(d, k) ==
    LET total == d.year * 12 + (d.month - 1) + k
        y == total \div 12
        m == (total % 12) + 1
    IN  [year |-> y, month |-> m, day |-> Min(d.day, DaysInMonth(y, m))]

\* d + relativedelta(days=1)
AddDay(d) ==
    IF d.day < DaysInMonth(d.year, d.month) THEN [d EXCEPT !.day = @ + 1]
    ELSE IF d.month < 12 THEN [year |-> d.year, month |-> d.month + 1, day |-> 1]
    ELSE [year |-> d.year + 1, month |-> 1, day |-> 1]

\* d - relativedelta(days=1)
SubDay(d) ==
    IF d.day > 1 THEN [d EXCEPT !.day = @ - 1]
    ELSE IF d.month > 1
    THEN [year |-> d.year, month |-> d.month - 1,
          day |-> DaysInMonth(d.year, d.month - 1)]
    ELSE [year |-> d.year - 1, month |-> 12, day |-> 31]

\* a > b on datetimes
DateAfter(a, b) ==
    \/ a.year > b.year
    \/ a.year = b.year /\ a.month > b.month
    \/ a.year = b.year /\ a.month = b.month /\ a.day > b.day

\* the train and test periods of the window that starts at current_start
Window(current_start, request) ==
    LET train_start == current_start
        train_end == SubDay(AddMonths(train_start, request.train_months))
        test_start == AddDay(train_end)
        test_end == SubDay(AddMonths(test_start, request.test_months))
    IN  [train_start |-> train_start, train_end |-> train_end,
         test_start |-> test_start, test_end |-> test_end]

NextStartStayed(current_start, step_months_for_next) == current_start

\* current_start += relativedelta(months=step_months_for_next)
NextStart(current_start, step_months_for_next) ==
    AddMonths(current_start, step_months_for_next)

\* walk_forward_start: a last day of January, the leap day, a first of March
WalkStarts == { [year |-> 2020, month |-> 1, day |-> 31],
                [year |-> 2020, month |-> 2, day |-> 29],
                [year |-> 2020, month |-> 3, day |-> 1] }

\* walk_forward_end
WalkEnds == { [year |-> 2020, month |-> 12, day |-> 30],
              [year |-> 2021, month |-> 2, day |-> 28] }

\* <<walk_forward_step_months, walk_forward_dynamic_step, the rebalance
\* periods of the configurations of the request, in months>>
WalkSteps == { <<0, FALSE, {1}>>, <<1, FALSE, {1}>>, <<2, FALSE, {1}>>,
               <<0, TRUE, {1, 3}>>, <<1, TRUE, {1, 3}>>, <<1, TRUE, {0, 2}>> }

InitWalk ==
    /\ \E start \in WalkStarts, end \in WalkEnds, train \in {1, 2}, test \in {1, 3},
          step \in WalkSteps :
          /\ strategy = [ walk_forward_start |-> start,
                          walk_forward_end |-> end,
                          train_months |-> train,
                          test_months |-> test,
                          walk_forward_step_months |-> step[1],
                          walk_forward_dynamic_step |-> step[2],
                          rebalance_period_range |-> step[3] ]
          /\ date = start
    /\ portfolio = None
    /\ pc = "walk"
    /\ day = 0
    /\ count = 0
    /\ current_prices = None
    /\ prev_prices = None
    /\ last_rebalance_date = None
    /\ tax_calls = <<>>
    /\ call = NoCall

\* if test_end > overall_end: break
WalkBreak ==
    /\ pc = "walk"
    /\ DateAfter(Window(date, strategy).test_end, strategy.walk_forward_end)
    /\ pc' = "walk_done"
    /\ call' = [NoCall EXCEPT !.op = "break", !.before = Some(date)]
    /\ UNCHANGED <<portfolio, strategy, day, date, count, current_prices, prev_prices,
                   last_rebalance_date, tax_calls>>

\* one iteration that produces a window: the window's optimisation has scores
\* or not, and its best configuration has one of the rebalance periods
WalkWindow ==
    /\ pc = "walk"
    /\ count < MaxWindows
    /\ ~DateAfter(Window(date, strategy).test_end, strategy.walk_forward_end)
    /\ \E scored \in BOOLEAN, rebalance_period \in strategy.rebalance_period_range :
          LET step_months_for_next ==
                  IF scored /\ strategy.walk_forward_dynamic_step
                  THEN rebalance_period
                  ELSE strategy.walk_forward_step_months
          IN  /\ date' = NextStart(date, step_months_for_next)
              /\ call' = [NoCall EXCEPT !.op = "window",
                                        !.amount = step_months_for_next,
                                        !.ret = Some(Window(date, strategy)),
                                        !.before = Some(date)]
    /\ count' = count + 1
    /\ UNCHANGED <<portfolio, strategy, pc, day, current_prices, prev_prices, last_rebalance_date,
                   tax_calls>>

NextWalk == WalkWindow \/ WalkBreak

\* the loop is not suspended: an iteration that can run does run
SpecWalk == InitWalk /\ [][NextWalk]_vars /\ WF_vars(NextWalk)

\* the loop has been left
WalkDone == pc = "walk_done"

\* the months from the month of d to the month of the overall end
Remaining(d) ==
    (strategy.walk_forward_end.year * 12 + strategy.walk_forward_end.month)
        - (d.year * 12 + d.month)

\* the request moves the window by one month or more at every iteration: its
\* fixed step does, and with the dynamic step so does the rebalance period of
\* every configuration
StepsAtLeastOneMonth ==
    /\ strategy.walk_forward_step_months >= 1
    /\ strategy.walk_forward_dynamic_step =>
          \A p \in strategy.rebalance_period_range : p >= 1

\* C39: the window loop terminates for a request whose step is at least one
\* month.  Every window produced has its test end on or before the overall
\* end, and starts at least one month before the month of the overall end; an
\* iteration with a step of k >= 1 months moves current_start forward and
\* lowers the months remaining by k; the loop is left only when the next
\* window would end after the overall end; so a request whose steps are all
\* at least one month makes at most as many iterations as there are months
\* from its start to the overall end, and its loop is never cut by the bound
\* on the windows.
C39_WindowLoopTerminates ==
    /\ (call.op = "window") =>
          /\ ~DateAfter(call.ret[1].test_end, strategy.walk_forward_end)
          /\ Remaining(call.before[1]) >= 1
    /\ (call.op = "window" /\ call.amount >= 1) =>
          /\ DateAfter(date, call.before[1])
          /\ Remaining(date) = Remaining(call.before[1]) - call.amount
    /\ WalkDone => DateAfter(Window(date, strategy).test_end, strategy.walk_forward_end)
    /\ StepsAtLeastOneMonth =>
          /\ count <= Remaining(strategy.walk_forward_start) - Remaining(date)
          /\ count <= Remaining(strategy.walk_forward_start)
          /\ (pc = "walk"
                /\ ~DateAfter(Window(date, strategy).test_end, strategy.walk_forward_end))
                => count < MaxWindows

\* a request with a dynamic step that starts on January 31st has produced
\* three windows or more and left the loop, the start having been clamped to a
\* shorter month
C39_DynamicWindowsDone ==
    /\ WalkDone
    /\ StepsAtLeastOneMonth
    /\ strategy.walk_forward_dynamic_step
    /\ strategy.walk_forward_start.day = 31
    /\ date.day < 31
    /\ count >= 3

====
